---------------------------- MODULE Spec2Model ----------------------------
(***************************************************************************)
(* A model of the RedisBloom module (src/rebloom.c): the command handlers  *)
(* BF.* and CF.*, the keyspace they act on, the persistence callbacks      *)
(* (AOF rewrite), and the two filter engines the handlers call.            *)
(*                                                                         *)
(* The command layer is translated from src/src/rebloom.c.  The engines    *)
(* (sb.c, cf.c, cuckoo.c, bloom.c) are not among the source files; their   *)
(* operators are written from the design document (sections 3 and 4) and   *)
(* are marked as such where they are defined.                              *)
(***************************************************************************)
EXTENDS Integers, Sequences, FiniteSets, TLC

(***************************************************************************)
(* Bounds of the model.                                                    *)
(***************************************************************************)
\* items a client may name are 1..NumItems
NumItems == 3
\* longest item list of a multi command (BF.MADD, BF.MEXISTS, CF.MEXISTS)
MaxArgs == 2
\* most BF.ADD / BF.MADD items ever added to one chain
MaxBloomAdds == 4
\* most fingerprints a client lets a filter hold
MaxCuckooAdds == 4
\* most successful CF.DEL per filter (numDeletes only grows)
MaxDeletes == 2
\* how many more CF.DEL than CF.ADD a client sends for one item
MaxOverDel == 1
\* kick budget of one sub-filter (the engine's constant is 500)
KickBudget == 2
\* bytes per SCANDUMP / AOF chunk (MAX_SCANDUMP_SIZE is 10 MiB)
ChunkBytes == 2
\* most commands that build one filter on the primary and its replica
MaxReplCmds == 3
\* sub-filters of 2^0 .. 2^MaxLogBuckets buckets
MaxLogBuckets == 3
\* the module's defaults, scaled (src/rebloom.c:18-20 set 0.01, 100, 1000)
BloomInitCap == 2
BloomErrLevel == 2
CuckooInitCap == 4

(***************************************************************************)
(* Program constants.                                                      *)
(***************************************************************************)
SB_CHUNKITER_INIT == 1
CUCKOO_BKTSIZE == 2

Items == 1..NumItems
Keys == {"k1", "k2"}

(***************************************************************************)
(* Arithmetic helpers.                                                     *)
(***************************************************************************)
CeilDiv(a, b) == (a + b - 1) \div b

Min(a, b) == IF a < b THEN a ELSE b

RECURSIVE Pow(_, _)
Pow(b, e) == IF e = 0 THEN 1 ELSE b * Pow(b, e - 1)

RECURSIVE Xor(_, _)
Xor(a, b) ==
    IF a = 0 THEN b
    ELSE IF b = 0 THEN a
    ELSE (((a % 2) + (b % 2)) % 2) + 2 * Xor(a \div 2, b \div 2)

RECURSIVE NextPow2(_)
NextPow2(n) == IF n <= 1 THEN 1 ELSE 2 * NextPow2(CeilDiv(n, 2))

RECURSIVE SumSeq(_)
SumSeq(s) == IF s = <<>> THEN 0 ELSE Head(s) + SumSeq(Tail(s))

(***************************************************************************)
(* lookupStatus and getValue (src/rebloom.c:23-62).                        *)
(* A stored value is a record [type, v]; type is "empty", "string" (any    *)
(* non-module type), "bloom" or "cuckoo".                                  *)
(***************************************************************************)
SB_OK == "SB_OK"
SB_MISSING == "SB_MISSING"
SB_EMPTY == "SB_EMPTY"
SB_MISMATCH == "SB_MISMATCH"

NoValue == [null |-> TRUE]
EmptyKey == [type |-> "empty", v |-> NoValue]
StringKey == [type |-> "string", v |-> NoValue]

getValue(val, expType) ==
    IF val.type = "empty" THEN SB_EMPTY
    ELSE IF val.type = expType THEN SB_OK
    ELSE SB_MISMATCH

bfGetChain(val) == getValue(val, "bloom")

cfGetFilter(val) == getValue(val, "cuckoo")

statusStrerror(status) ==
    CASE status \in {SB_MISSING, SB_EMPTY} -> "ERR not found"
      [] status = SB_MISMATCH -> "WRONGTYPE"
      [] status = SB_OK -> "ERR item exists"
      [] OTHER -> "Unknown error"

(***************************************************************************)
(* Replies: the sequence of reply calls a handler makes.                   *)
(***************************************************************************)
RInt(n) == [t |-> "int", n |-> n, s |-> "", d |-> <<>>]
RErr(s) == [t |-> "err", n |-> 0, s |-> s, d |-> <<>>]
RStr(s) == [t |-> "str", n |-> 0, s |-> s, d |-> <<>>]
RArr(n) == [t |-> "arr", n |-> n, s |-> "", d |-> <<>>]
RNull == [t |-> "null", n |-> 0, s |-> "", d |-> <<>>]
RArity == [t |-> "err", n |-> 0, s |-> "ERR wrong number of arguments", d |-> <<>>]
\* a string reply printed from a format and the numbers d
RInfo(fmt, d) == [t |-> "str", n |-> 0, s |-> fmt, d |-> d]

(***************************************************************************)
(* The bloom engine (bloom.c, sb.c: not among the source files; written    *)
(* from the design document, sections 3, 4.A-4.C and 4.F).                 *)
(*                                                                         *)
(* An error rate is 2^-level, so the sizing formulas stay in the integers: *)
(* bpe = -log2(error) / ln 2 = level * 1.4427 (kept in thousandths),       *)
(* hashes = ceil(ln 2 * bpe) = level, bits = ceil(entries * bpe).          *)
(* A bit vector is the set of the indices of its set bits.                 *)
(***************************************************************************)
BpeMilli(level) == level * 1443

\* BloomLayer sizing from (entries, error)
bloom_init(entries, level) ==
    LET bits == CeilDiv(entries * BpeMilli(level), 1000)
    IN  [entries |-> entries, error |-> level, hashes |-> level,
         bpe |-> BpeMilli(level), bits |-> bits, n2 |-> 0,
         bytes |-> CeilDiv(bits, 8), bf |-> {}, size |-> 0]

\* the two base hashes of an item
HashA(x) == (x * 40503) % 65536

HashB(x) == (x * 9973 + 7) % 65536

\* the k probes of an item in a layer: (h1 + i * h2) mod bits
Probes(link, x) ==
    { (HashA(x) + i * HashB(x)) % link.bits : i \in 0..(link.hashes - 1) }

\* BloomLayer Check: 1 iff all k bits are set
bloom_check(link, x) == Probes(link, x) \subseteq link.bf

\* BloomLayer Add: sets all k probes; 1 iff some bit was 0 before
bloom_add(link, x) ==
    [link |-> [link EXCEPT !.bf = @ \cup Probes(link, x)],
     rv |-> IF bloom_check(link, x) THEN 0 ELSE 1]

\* SB_NewChain: a chain with layer 0 of capacity C0 and error e0,
\* or NULL when the parameters are unusable or the allocation fails
SB_NewChain(capacity, level, allocOK) ==
    IF ~allocOK \/ capacity < 1 \/ level < 1 THEN NoValue
    ELSE [size |-> 0, nfilters |-> 1, growth |-> 2, tightening |-> 1,
          filters |-> << bloom_init(capacity, level) >>]

\* BloomChain Check: 1 iff any layer reports present
SBChain_Check(sb, x) ==
    IF \E i \in 1..sb.nfilters : bloom_check(sb.filters[i], x) THEN 1 ELSE 0


\* faulty variant: the appended layer has the capacity of the layer before it
SBChain_Grow_SameCapacity(sb) ==
    LET last == sb.filters[sb.nfilters]
    IN  [sb EXCEPT !.nfilters = @ + 1,
                   !.filters = Append(@, bloom_init(last.entries,
                                                   last.error + sb.tightening))]

\* the chain grown by one layer: entries_last * growth, error_last * tightening
SBChain_Grow(sb) ==
    LET last == sb.filters[sb.nfilters]
    IN  [sb EXCEPT !.nfilters = @ + 1,
                   !.filters = Append(@, bloom_init(last.entries * sb.growth,
                                                   last.error + sb.tightening))]

\* BloomChain Add: grow when no layer has size < entries, add to the last
\* layer, count the item in the layer's and the chain's size
SBChain_Add(sb, x) ==
    LET grown == IF \E i \in 1..sb.nfilters :
                       sb.filters[i].size < sb.filters[i].entries
                 THEN sb ELSE SBChain_Grow(sb)
        n == grown.nfilters
        r == bloom_add(grown.filters[n], x)
    IN  [sb |-> [grown EXCEPT !.filters[n] = [r.link EXCEPT !.size = @ + 1],
                              !.size = @ + 1],
         rv |-> r.rv]

\* SBChain_Add over the items of a command, in order: the chain and the rv's
RECURSIVE AddAll(_, _)
AddAll(sb, items) ==
    IF items = <<>> THEN [sb |-> sb, rvs |-> <<>>]
    ELSE LET one == SBChain_Add(sb, Head(items))
             rest == AddAll(one.sb, Tail(items))
         IN  [sb |-> rest.sb, rvs |-> << one.rv >> \o rest.rvs]

(***************************************************************************)
(* Command arguments.  A numeric argument is [ok, huge, n]: ok is whether  *)
(* RedisModule_StringToLongLong / StringToDouble parses it, huge whether   *)
(* the number is >= UINT32_MAX (its value is then not looked at), n the    *)
(* number.  An error rate n >= 1 stands for 2^-n, 0 for 0, -1 for a        *)
(* negative rate.                                                          *)
(***************************************************************************)
Num(n) == [ok |-> TRUE, huge |-> FALSE, n |-> n]
NotANumber == [ok |-> FALSE, huge |-> FALSE, n |-> 0]
HugeNumber == [ok |-> TRUE, huge |-> TRUE, n |-> 0]

\* isMulti: the command name's fourth character is 'm' or 'M'
isMulti(name) == name \in {"BF.MADD", "BF.MEXISTS", "CF.MEXISTS"}

\* isCount: the command name's last character is 'T'
isCount(name) == name \in {"CF.COUNT"}

\* isNX: the command name's last character is 'x'
isNX(name) == name \in {"CF.ADDNX"}

Bloom(sb) == [type |-> "bloom", v |-> sb]
Cuckoo(cf) == [type |-> "cuckoo", v |-> cf]

(***************************************************************************)
(* The BF.* handlers.  Each takes the value stored under the key and the   *)
(* arguments after the key, and yields the value stored afterwards and the *)
(* reply calls made.                                                       *)
(***************************************************************************)
\* bfCreateChain: the value is set only when SB_NewChain succeeded
bfCreateChain(val, level, capacity, allocOK) ==
    LET sb == SB_NewChain(capacity, level, allocOK)
    IN  IF sb # NoValue THEN Bloom(sb) ELSE val

\* faulty variant: the key may hold a chain already
BFReserve_OverChain(val, args, allocOK) ==
    IF Len(args) # 2 THEN [val |-> val, reply |-> << RArity >>]
    ELSE IF ~args[1].ok
    THEN [val |-> val, reply |-> << RErr("ERR bad error rate") >>]
    ELSE IF ~args[2].ok \/ args[2].huge
    THEN [val |-> val, reply |-> << RErr("ERR bad capacity") >>]
    ELSE IF args[1].n = 0 \/ args[2].n = 0
    THEN [val |-> val,
          reply |-> << RErr("ERR capacity and error must not be 0") >>]
    ELSE IF bfGetChain(val) = SB_MISMATCH
    THEN [val |-> val, reply |-> << RErr(statusStrerror(bfGetChain(val))) >>]
    ELSE LET new == bfCreateChain(val, args[1].n, args[2].n, allocOK)
         IN  IF new.type # "bloom"
             THEN [val |-> new, reply |-> << RStr("ERR could not create filter") >>]
             ELSE [val |-> new, reply |-> << RStr("OK") >>]

BFReserve_RedisCommand(val, args, allocOK) ==
    IF Len(args) # 2 THEN [val |-> val, reply |-> << RArity >>]
    ELSE IF ~args[1].ok
    THEN [val |-> val, reply |-> << RErr("ERR bad error rate") >>]
    ELSE IF ~args[2].ok \/ args[2].huge
    THEN [val |-> val, reply |-> << RErr("ERR bad capacity") >>]
    ELSE IF args[1].n = 0 \/ args[2].n = 0
    THEN [val |-> val,
          reply |-> << RErr("ERR capacity and error must not be 0") >>]
    ELSE IF bfGetChain(val) # SB_EMPTY
    THEN [val |-> val, reply |-> << RErr(statusStrerror(bfGetChain(val))) >>]
    ELSE LET new == bfCreateChain(val, args[1].n, args[2].n, allocOK)
         IN  IF new.type # "bloom"
             THEN [val |-> new, reply |-> << RStr("ERR could not create filter") >>]
             ELSE [val |-> new, reply |-> << RStr("OK") >>]

\* the replies of the item loop of BF.EXISTS / BF.MEXISTS
BFCheckReplies(val, items) ==
    [i \in 1..Len(items) |->
        IF bfGetChain(val) # SB_OK THEN RInt(0)
        ELSE RInt(SBChain_Check(val.v, items[i]))]

BFCheck_RedisCommand(val, name, items) ==
    IF (~isMulti(name) /\ Len(items) # 1) \/ (isMulti(name) /\ Len(items) < 1)
    THEN [val |-> val, reply |-> << RArity >>]
    ELSE [val |-> val,
          reply |-> (IF isMulti(name) THEN << RArr(Len(items)) >> ELSE <<>>)
                    \o BFCheckReplies(val, items)]

\* faulty variant: the loop adds the first item only and replies 1 for the others
BFAddLoop_FirstOnly(sb, items) ==
    LET r == AddAll(sb, SubSeq(items, 1, 1))
    IN  [sb |-> r.sb,
         replies |-> [i \in 1..Len(items) |->
                         RInt(IF i > 1 \/ r.rvs[i] # 0 THEN 1 ELSE 0)]]

\* faulty variant: each item replies !rv
BFAddLoop_Negated(sb, items) ==
    LET r == AddAll(sb, items)
    IN  [sb |-> r.sb,
         replies |-> [i \in 1..Len(items) |->
                         RInt(IF r.rvs[i] # 0 THEN 0 ELSE 1)]]

\* the item loop of BF.ADD / BF.MADD: every item is added, each replies !!rv
BFAddLoop(sb, items) ==
    LET r == AddAll(sb, items)
    IN  [sb |-> r.sb,
         replies |-> [i \in 1..Len(items) |->
                         RInt(IF r.rvs[i] # 0 THEN 1 ELSE 0)]]

BFAdd_RedisCommand(val, name, items, allocOK) ==
    IF (isMulti(name) /\ Len(items) < 1) \/ (~isMulti(name) /\ Len(items) # 1)
    THEN [val |-> val, reply |-> << RArity >>]
    ELSE LET status == bfGetChain(val)
             made == IF status = SB_EMPTY
                     THEN bfCreateChain(val, BloomErrLevel, BloomInitCap, allocOK)
                     ELSE val
         IN  IF status = SB_EMPTY /\ made.type # "bloom"
             THEN [val |-> made, reply |-> << RErr("ERR could not create filter") >>]
             ELSE IF status # SB_EMPTY /\ status # SB_OK
             THEN [val |-> val, reply |-> << RErr(statusStrerror(status)) >>]
             ELSE LET r == BFAddLoop(made.v, items)
                  IN  [val |-> Bloom(r.sb),
                       reply |-> (IF isMulti(name) THEN << RArr(Len(items)) >>
                                  ELSE <<>>) \o r.replies]

(***************************************************************************)
(* The cuckoo engine (cuckoo.c, cf.c: not among the source files; written  *)
(* from the design document, sections 3, 4.D-4.F).                         *)
(*                                                                         *)
(* A sub-filter is a sequence of numBuckets buckets (bucket i of the text  *)
(* is element i + 1), a bucket a sequence of CUCKOO_BKTSIZE fingerprints,  *)
(* 0 meaning an empty slot.                                                *)
(***************************************************************************)
\* CUCKOO_GEN_HASH: the hash of an item's bytes.  The low byte gives the
\* primary index, the next byte the fingerprint.  Items 1 and 3 share the
\* fingerprint and the two candidate buckets; item 2 has an even fingerprint
\* hash, so both its candidate buckets are the same bucket.
CUCKOO_GEN_HASH(x) ==
    CASE x = 1 -> 256 * 1 + 0
      [] x = 2 -> 256 * 2 + 1
      [] x = 3 -> 256 * 0 + 1
      [] OTHER -> 256 * x + x

\* the fingerprint: the bottom 8 bits of a derived hash, 0 mapped to 1
Fingerprint(h) == IF (h \div 256) % 256 = 0 THEN 1 ELSE (h \div 256) % 256

hash32(fp) == (fp * 40503) % 65536

\* faulty variant: the hash is added to the index, not xor-ed with it
getAltIndex_Add(fp, i, numBuckets) == (i + hash32(fp)) % numBuckets

\* alt(i, fp) = (i XOR hash32(fp)) mod numBuckets
getAltIndex(fp, i, numBuckets) == Xor(i, hash32(fp)) % numBuckets

EmptyBucket == [s \in 1..CUCKOO_BKTSIZE |-> 0]

EmptySubFilter(numBuckets) == [b \in 1..numBuckets |-> EmptyBucket]

\* the first empty slot of bucket i, or 0
Bucket_FindAvailable(sub, i) ==
    IF \E s \in 1..CUCKOO_BKTSIZE : sub[i + 1][s] = 0
    THEN CHOOSE s \in 1..CUCKOO_BKTSIZE :
            /\ sub[i + 1][s] = 0
            /\ \A t \in 1..(s - 1) : sub[i + 1][t] # 0
    ELSE 0

\* the slots of bucket i that hold fp
SlotsWith(sub, i, fp) == { s \in 1..CUCKOO_BKTSIZE : sub[i + 1][s] = fp }

\* TryInsert(fp, h, kickBudget): every outcome the random walk can have, as
\* [status, sub, fp, i]: on NoSpace, fp is the fingerprint left homeless and
\* i the bucket it was headed for
RECURSIVE TryInsert(_, _, _, _, _)
TryInsert(sub, numBuckets, fp, i, budget) ==
    LET i2 == getAltIndex(fp, i, numBuckets)
        s1 == Bucket_FindAvailable(sub, i)
        s2 == Bucket_FindAvailable(sub, i2)
    IN  IF s1 # 0
        THEN {[status |-> "Inserted", sub |-> [sub EXCEPT ![i + 1][s1] = fp],
               fp |-> fp, i |-> i]}
        ELSE IF s2 # 0
        THEN {[status |-> "Inserted", sub |-> [sub EXCEPT ![i2 + 1][s2] = fp],
               fp |-> fp, i |-> i2]}
        ELSE IF budget = 0
        THEN {[status |-> "NoSpace", sub |-> sub, fp |-> fp, i |-> i]}
        ELSE UNION { TryInsert([sub EXCEPT ![b + 1][s] = fp], numBuckets,
                               sub[b + 1][s],
                               getAltIndex(sub[b + 1][s], b, numBuckets),
                               budget - 1) :
                     b \in {i, i2}, s \in 1..CUCKOO_BKTSIZE }

\* CuckooFilter_Init: numBuckets = nextPow2(capacity / B), one sub-filter
CuckooFilter_Init(capacity, allocOK) ==
    IF ~allocOK \/ capacity < 0 THEN NoValue
    ELSE LET nb == NextPow2(capacity \div CUCKOO_BKTSIZE)
         IN  [numItems |-> 0, numBuckets |-> nb, numDeletes |-> 0,
              numFilters |-> 1, filters |-> << EmptySubFilter(nb) >>]

CuckooFilter_Grow(cf) ==
    [cf EXCEPT !.numFilters = @ + 1,
               !.filters = Append(@, EmptySubFilter(cf.numBuckets))]

\* faulty variant: when growing fails the filter is left as the kicks made it
RECURSIVE InsertFrom_NoSnapshot(_, _, _, _, _, _)
InsertFrom_NoSnapshot(cf0, cf, j, fp, i, growOK) ==
    IF j > cf.numFilters
    THEN IF ~growOK THEN {[status |-> "NoSpace", cf |-> cf]}
         ELSE InsertFrom_NoSnapshot(cf0, CuckooFilter_Grow(cf), j, fp, i, growOK)
    ELSE UNION { IF o.status = "Inserted"
                 THEN {[status |-> "Inserted",
                        cf |-> [cf EXCEPT !.filters[j] = o.sub,
                                          !.numItems = @ + 1]]}
                 ELSE InsertFrom_NoSnapshot(cf0, [cf EXCEPT !.filters[j] = o.sub],
                                            j + 1, o.fp, o.i, growOK) :
                 o \in TryInsert(cf.filters[j], cf.numBuckets, fp, i,
                                 KickBudget) }

\* Insert from sub-filter j on, the caller holding (fp, i): every outcome
\* [status, cf].  When growing fails the pre-kick-loop snapshot cf0 is kept.
RECURSIVE InsertFrom(_, _, _, _, _, _)
InsertFrom(cf0, cf, j, fp, i, growOK) ==
    IF j > cf.numFilters
    THEN IF ~growOK THEN {[status |-> "NoSpace", cf |-> cf0]}
         ELSE InsertFrom(cf0, CuckooFilter_Grow(cf), j, fp, i, growOK)
    ELSE UNION { IF o.status = "Inserted"
                 THEN {[status |-> "Inserted",
                        cf |-> [cf EXCEPT !.filters[j] = o.sub,
                                          !.numItems = @ + 1]]}
                 ELSE InsertFrom(cf0, [cf EXCEPT !.filters[j] = o.sub],
                                 j + 1, o.fp, o.i, growOK) :
                 o \in TryInsert(cf.filters[j], cf.numBuckets, fp, i,
                                 KickBudget) }

\* Insert (duplicate-permitting)
CuckooFilter_Insert(cf, h, growOK) ==
    InsertFrom(cf, cf, 1, Fingerprint(h), h % cf.numBuckets, growOK)

\* the candidate buckets of hash h
Candidates(cf, h) ==
    {h % cf.numBuckets,
     getAltIndex(Fingerprint(h), h % cf.numBuckets, cf.numBuckets)}

\* Check: some sub-filter holds fp in bucket i1 or i2
CuckooFilter_Check(cf, h) ==
    IF \E j \in 1..cf.numFilters : \E b \in Candidates(cf, h) :
          SlotsWith(cf.filters[j], b, Fingerprint(h)) # {}
    THEN 1 ELSE 0

\* Count: the slot occurrences of fp across i1 and i2, summed over sub-filters
CuckooFilter_Count(cf, h) ==
    Cardinality({ jbs \in (1..cf.numFilters) \X Candidates(cf, h)
                          \X (1..CUCKOO_BKTSIZE) :
                  cf.filters[jbs[1]][jbs[2] + 1][jbs[3]] = Fingerprint(h) })

\* InsertUnique: Check first; if present, Exists without mutation
CuckooFilter_InsertUnique(cf, h, growOK) ==
    IF CuckooFilter_Check(cf, h) = 1 THEN {[status |-> "Exists", cf |-> cf]}
    ELSE CuckooFilter_Insert(cf, h, growOK)

\* the first (sub-filter, bucket, slot) Delete would zero: sub-filters in
\* order, i1 before i2
DeleteTarget(cf, h) ==
    LET fp == Fingerprint(h)
        i1 == h % cf.numBuckets
        i2 == getAltIndex(fp, i1, cf.numBuckets)
        hit(j) == SlotsWith(cf.filters[j], i1, fp) # {}
                  \/ SlotsWith(cf.filters[j], i2, fp) # {}
    IN  IF \A j \in 1..cf.numFilters : ~hit(j) THEN << 0, 0, 0 >>
        ELSE LET j == CHOOSE k \in 1..cf.numFilters :
                          hit(k) /\ \A m \in 1..(k - 1) : ~hit(m)
                 b == IF SlotsWith(cf.filters[j], i1, fp) # {} THEN i1 ELSE i2
                 s == CHOOSE t \in SlotsWith(cf.filters[j], b, fp) :
                          \A u \in SlotsWith(cf.filters[j], b, fp) : t <= u
             IN  << j, b, s >>

\* Delete: zero one matching slot; numItems drops, numDeletes counts it
CuckooFilter_Delete(cf, h) ==
    LET t == DeleteTarget(cf, h)
    IN  IF t[1] = 0 THEN [cf |-> cf, rv |-> 0]
        ELSE [cf |-> [cf EXCEPT !.filters[t[1]][t[2] + 1][t[3]] = 0,
                                !.numItems = @ - 1,
                                !.numDeletes = @ + 1],
              rv |-> 1]

(***************************************************************************)
(* The chunked encoding of a bloom chain (sb.c, from the design document,  *)
(* section 4.F).  A blob is a sequence of numbers: header fields, or the   *)
(* bytes of a bit vector.  Cursor 0 asks for the header; cursor c >= 1     *)
(* addresses byte c - 1 of the layers' bit vectors laid end to end, and    *)
(* the cursor that comes back with a chunk is the one after its last byte. *)
(***************************************************************************)
\* byte k of a bit vector, as a number 0..255
ByteOf(bf, k) ==
    LET bit(b) == IF (8 * k + b) \in bf THEN Pow(2, b) ELSE 0
    IN  bit(0) + bit(1) + bit(2) + bit(3) + bit(4) + bit(5) + bit(6) + bit(7)

\* the bits of byte value v, placed at byte k
BitsOf(v, k) == { 8 * k + b : b \in { c \in 0..7 : (v \div Pow(2, c)) % 2 = 1 } }

LinkHeader(link) ==
    << link.entries, link.error, link.hashes, link.bpe, link.bits, link.n2,
       link.bytes, link.size >>

RECURSIVE LinkHeaders(_)
LinkHeaders(links) ==
    IF links = <<>> THEN <<>>
    ELSE LinkHeader(Head(links)) \o LinkHeaders(Tail(links))

\* the chain-level fields and one parameter record per layer, no bit vectors
SBChain_GetEncodedHeader(sb) ==
    << sb.size, sb.nfilters, sb.growth, sb.tightening >> \o LinkHeaders(sb.filters)

\* a chain with zeroed bit vectors from an encoded header, or NULL
SB_NewChainFromHeader(buf, allocOK) ==
    IF ~allocOK \/ Len(buf) < 4 THEN NoValue
    ELSE IF buf[2] < 1 \/ Len(buf) # 4 + 8 * buf[2] THEN NoValue
    ELSE [size |-> buf[1], nfilters |-> buf[2], growth |-> buf[3],
          tightening |-> buf[4],
          filters |-> [i \in 1..buf[2] |->
              LET o == 4 + 8 * (i - 1)
              IN  [entries |-> buf[o + 1], error |-> buf[o + 2],
                   hashes |-> buf[o + 3], bpe |-> buf[o + 4],
                   bits |-> buf[o + 5], n2 |-> buf[o + 6],
                   bytes |-> buf[o + 7], bf |-> {}, size |-> buf[o + 8]]]]

\* the layer holding byte `offset` of the laid-out bit vectors and the
\* offset within it, from layer i on; << 0, 0 >> when past the end
RECURSIVE getLinkPos(_, _, _)
getLinkPos(sb, i, offset) ==
    IF i > sb.nfilters \/ offset < 0 THEN << 0, 0 >>
    ELSE IF offset < sb.filters[i].bytes THEN << i, offset >>
    ELSE getLinkPos(sb, i + 1, offset - sb.filters[i].bytes)

\* up to maxChunkSize bytes of one layer from the cursor on, and the cursor
\* advanced; at the end a zero-length chunk and cursor 0
SBChain_GetEncodedChunk(sb, iter, maxChunkSize) ==
    LET at == getLinkPos(sb, 1, iter - 1)
        len == Min(maxChunkSize, sb.filters[at[1]].bytes - at[2])
    IN  IF at[1] = 0 THEN [buf |-> <<>>, isNull |-> TRUE, iter |-> 0]
        ELSE [buf |-> [k \in 1..len |->
                          ByteOf(sb.filters[at[1]].bf, at[2] + k - 1)],
              isNull |-> FALSE, iter |-> iter + len]

\* the chunk written back where it was read from: the cursor is the one
\* that came with it, so it starts at cursor - length - 1
SBChain_LoadEncodedChunk(sb, iter, buf) ==
    LET at == getLinkPos(sb, 1, iter - Len(buf) - 1)
        i == at[1]
        old == sb.filters[i].bf
        kept == { b \in old : b \div 8 < at[2] \/ b \div 8 >= at[2] + Len(buf) }
        new == UNION { BitsOf(buf[k], at[2] + k - 1) : k \in 1..Len(buf) }
    IN  IF i = 0
        THEN [sb |-> sb, rc |-> 1, err |-> "ERR invalid offset - no link found"]
        ELSE IF Len(buf) > sb.filters[i].bytes - at[2]
        THEN [sb |-> sb, rc |-> 1, err |-> "ERR invalid chunk - Too big for current filter"]
        ELSE [sb |-> [sb EXCEPT !.filters[i].bf = kept \cup new],
              rc |-> 0, err |-> ""]

(***************************************************************************)
(* BF.SCANDUMP, BF.LOADCHUNK (src/rebloom.c:258-342).  A reply that        *)
(* carries bytes is RBuf.                                                  *)
(***************************************************************************)
RBuf(d) == [t |-> "buf", n |-> Len(d), s |-> "", d |-> d]

\* the scaled MAX_SCANDUMP_SIZE
MAX_SCANDUMP_SIZE == ChunkBytes

BFScanDump_RedisCommand(val, args) ==
    IF Len(args) # 1 THEN [val |-> val, reply |-> << RArity >>]
    ELSE IF bfGetChain(val) # SB_OK
    THEN [val |-> val, reply |-> << RErr(statusStrerror(bfGetChain(val))) >>]
    ELSE IF ~args[1].ok
    THEN [val |-> val, reply |-> << RErr("Second argument must be numeric") >>]
    ELSE IF args[1].n = 0
    THEN [val |-> val,
          reply |-> << RArr(2), RInt(SB_CHUNKITER_INIT),
                       RBuf(SBChain_GetEncodedHeader(val.v)) >>]
    ELSE LET c == SBChain_GetEncodedChunk(val.v, args[1].n, MAX_SCANDUMP_SIZE)
         IN  [val |-> val, reply |-> << RArr(2), RInt(c.iter), RBuf(c.buf) >>]

\* faulty variant: the chain is made from the header when the cursor is 0
BFLoadChunk_HeaderAtZero(val, args, buf, allocOK) ==
    IF Len(args) # 1 THEN [val |-> val, reply |-> << RArity >>]
    ELSE IF ~args[1].ok
    THEN [val |-> val, reply |-> << RErr("ERR Second argument must be numeric") >>]
    ELSE LET status == bfGetChain(val)
             iter == args[1].n
         IN  IF status = SB_EMPTY /\ iter = 0
             THEN LET sb == SB_NewChainFromHeader(buf, allocOK)
                  IN  IF sb = NoValue
                      THEN [val |-> val, reply |-> << RErr("ERR invalid header") >>]
                      ELSE [val |-> Bloom(sb), reply |-> << RStr("OK") >>]
             ELSE IF status # SB_OK
             THEN [val |-> val, reply |-> << RErr(statusStrerror(status)) >>]
             ELSE LET r == SBChain_LoadEncodedChunk(val.v, iter, buf)
                  IN  IF r.rc # 0
                      THEN [val |-> val, reply |-> << RErr(r.err) >>]
                      ELSE [val |-> Bloom(r.sb), reply |-> << RStr("OK") >>]

\* faulty variant: on an empty key a chain is made whatever the cursor
BFLoadChunk_AnyCursor(val, args, buf, allocOK) ==
    IF Len(args) # 1 THEN [val |-> val, reply |-> << RArity >>]
    ELSE IF ~args[1].ok
    THEN [val |-> val, reply |-> << RErr("ERR Second argument must be numeric") >>]
    ELSE LET status == bfGetChain(val)
             iter == args[1].n
         IN  IF status = SB_EMPTY
             THEN LET sb == SB_NewChainFromHeader(buf, allocOK)
                  IN  IF sb = NoValue
                      THEN [val |-> val, reply |-> << RErr("ERR invalid header") >>]
                      ELSE [val |-> Bloom(sb), reply |-> << RStr("OK") >>]
             ELSE IF status # SB_OK
             THEN [val |-> val, reply |-> << RErr(statusStrerror(status)) >>]
             ELSE LET r == SBChain_LoadEncodedChunk(val.v, iter, buf)
                  IN  IF r.rc # 0
                      THEN [val |-> val, reply |-> << RErr(r.err) >>]
                      ELSE [val |-> Bloom(r.sb), reply |-> << RStr("OK") >>]

BFLoadChunk_RedisCommand(val, args, buf, allocOK) ==
    IF Len(args) # 1 THEN [val |-> val, reply |-> << RArity >>]
    ELSE IF ~args[1].ok
    THEN [val |-> val, reply |-> << RErr("ERR Second argument must be numeric") >>]
    ELSE LET status == bfGetChain(val)
             iter == args[1].n
         IN  IF status = SB_EMPTY /\ iter = 1
             THEN LET sb == SB_NewChainFromHeader(buf, allocOK)
                  IN  IF sb = NoValue
                      THEN [val |-> val, reply |-> << RErr("ERR invalid header") >>]
                      ELSE [val |-> Bloom(sb), reply |-> << RStr("OK") >>]
             ELSE IF status # SB_OK
             THEN [val |-> val, reply |-> << RErr(statusStrerror(status)) >>]
             ELSE LET r == SBChain_LoadEncodedChunk(val.v, iter, buf)
                  IN  IF r.rc # 0
                      THEN [val |-> val, reply |-> << RErr(r.err) >>]
                      ELSE [val |-> Bloom(r.sb), reply |-> << RStr("OK") >>]


\* BF.DEBUG key: the chain's size, then one line per layer; bits is printed
\* as 1 << n2 when it is 0
BFInfo_RedisCommand(val, args) ==
    IF Len(args) # 0 THEN [val |-> val, reply |-> << RArity >>]
    ELSE IF bfGetChain(val) # SB_OK
    THEN [val |-> val, reply |-> << RErr(statusStrerror(bfGetChain(val))) >>]
    ELSE LET sb == val.v
         IN  [val |-> val,
              reply |-> << RArr(1 + sb.nfilters), RInfo("size", << sb.size >>) >>
                  \o [ii \in 1..sb.nfilters |->
                        LET lb == sb.filters[ii]
                        IN  RInfo("bytes bits hashes capacity size ratio",
                                  << lb.bytes,
                                     IF lb.bits # 0 THEN lb.bits ELSE Pow(2, lb.n2),
                                     lb.hashes, lb.entries, lb.size, lb.error >>)]]

\* BFMemUsage: sizeof(chain) + per layer sizeof(link) + bytes, the struct
\* sizes counted as 1
BFMemUsage(sb) ==
    1 + SumSeq([i \in 1..sb.nfilters |-> 1 + sb.filters[i].bytes])

\* the chunk commands BFAofRewrite emits from cursor iter on
RECURSIVE BFAofChunks(_, _)
BFAofChunks(sb, iter) ==
    LET c == SBChain_GetEncodedChunk(sb, iter, MAX_SCANDUMP_SIZE)
    IN  IF c.isNull THEN <<>>
        ELSE << [name |-> "BF.LOADCHUNK", pos |-> Num(c.iter), buf |-> c.buf] >>
             \o BFAofChunks(sb, c.iter)

\* BFAofRewrite: the header with cursor 0, then one command per chunk.  The
\* cursor is the int literal 0 passed where the "l" format reads a long long:
\* its low word is 0 and its high word is whatever the call left there
\* (junk; 0 on the usual builds), 2^16 standing for 2^32.
BFAofRewrite(sb, junk) ==
    << [name |-> "BF.LOADCHUNK", pos |-> Num(junk * Pow(2, 16)),
        buf |-> SBChain_GetEncodedHeader(sb)] >>
    \o BFAofChunks(sb, SB_CHUNKITER_INIT)

(***************************************************************************)
(* The chunked encoding of a cuckoo filter (cf.c, from the design          *)
(* document, section 4.F).  The header is the record {numItems,            *)
(* numBuckets, numDeletes, numFilters}; the cursor addresses a byte of the *)
(* sub-filters' bucket arrays laid end to end (one fingerprint a byte),    *)
(* and the cursor that comes back with a chunk is the one after it.        *)
(***************************************************************************)
\* the number of fields of a CFHeader, standing for sizeof(CFHeader)
CFHeaderLen == 4

CFHeader(cf) == << cf.numItems, cf.numBuckets, cf.numDeletes, cf.numFilters >>

\* a filter with the header's fields and zeroed buckets, or NULL
CFHeader_Load(hdr, allocOK) ==
    IF ~allocOK \/ hdr[2] < 1 \/ hdr[4] < 1 THEN NoValue
    ELSE [numItems |-> hdr[1], numBuckets |-> hdr[2], numDeletes |-> hdr[3],
          numFilters |-> hdr[4],
          filters |-> [j \in 1..hdr[4] |-> EmptySubFilter(hdr[2])]]

\* the bytes of one sub-filter
SubBytes(cf) == cf.numBuckets * CUCKOO_BKTSIZE

\* byte `off` (from 0) of sub-filter j
SubByte(cf, j, off) ==
    cf.filters[j][(off \div CUCKOO_BKTSIZE) + 1][(off % CUCKOO_BKTSIZE) + 1]

\* up to bytelimit bytes of one sub-filter from pos on and pos advanced;
\* NULL when pos is past the last sub-filter
CF_GetEncodedChunk(cf, pos, bytelimit) ==
    LET j == (pos \div SubBytes(cf)) + 1
        off == pos % SubBytes(cf)
        len == Min(bytelimit, SubBytes(cf) - off)
    IN  IF pos < 0 \/ pos >= SubBytes(cf) * cf.numFilters
        THEN [buf |-> <<>>, isNull |-> TRUE, pos |-> pos]
        ELSE [buf |-> [k \in 1..len |-> SubByte(cf, j, off + k - 1)],
              isNull |-> FALSE, pos |-> pos + len]

\* the chunk written over the byte range that ends at pos
CF_LoadEncodedChunk(cf, pos, data) ==
    LET start == pos - Len(data)
        j == (start \div SubBytes(cf)) + 1
        off == start % SubBytes(cf)
        byte(b, sl) ==
            LET o == (b - 1) * CUCKOO_BKTSIZE + (sl - 1)
            IN  IF o >= off /\ o < off + Len(data) THEN data[o - off + 1]
                ELSE cf.filters[j][b][sl]
    IN  IF Len(data) = 0 \/ start < 0 \/ j > cf.numFilters
           \/ off + Len(data) > SubBytes(cf)
        THEN [cf |-> cf, rc |-> 1]
        ELSE [cf |-> [cf EXCEPT !.filters[j] =
                        [b \in 1..cf.numBuckets |->
                            [sl \in 1..CUCKOO_BKTSIZE |-> byte(b, sl)]]],
              rc |-> 0]

(***************************************************************************)
(* The CF.* handlers (src/rebloom.c:344-609).  CF.ADD and CF.ADDNX yield   *)
(* the set of their possible results: the engine's kicks are random.       *)
(***************************************************************************)
\* cfCreate: the key's value is set even when CuckooFilter_Init failed,
\* then to a NULL filter
cfCreate(capacity, allocOK) == Cuckoo(CuckooFilter_Init(capacity, allocOK))

CFReserve_RedisCommand(val, args, allocOK) ==
    IF Len(args) # 1 THEN [val |-> val, reply |-> << RArity >>]
    ELSE IF ~args[1].ok
    THEN [val |-> val, reply |-> << RErr("Bad capacity") >>]
    ELSE IF cfGetFilter(val) # SB_EMPTY
    THEN [val |-> val, reply |-> << RErr(statusStrerror(cfGetFilter(val))) >>]
    ELSE LET new == cfCreate(args[1].n, allocOK)
         IN  IF new.v = NoValue
             THEN [val |-> new, reply |-> << RErr("Couldn't create Cuckoo Filter") >>]
             ELSE [val |-> new, reply |-> << RStr("OK") >>]

\* faulty variant: the Exists case replies 1
CFAddReply_ExistsIsOne(insStatus) ==
    CASE insStatus = "Inserted" -> RInt(1)
      [] insStatus = "Exists" -> RInt(1)
      [] insStatus = "NoSpace" -> RErr("Filter is full")

\* the switch on the insert status at the end of CF.ADD / CF.ADDNX
CFAddReply(insStatus) ==
    CASE insStatus = "Inserted" -> RInt(1)
      [] insStatus = "Exists" -> RInt(0)
      [] insStatus = "NoSpace" -> RErr("Filter is full")

\* faulty variant: the NX suffix is not looked at
CFAddInsert_NoNX(cf, name, h, growOK) == CuckooFilter_Insert(cf, h, growOK)

\* the insert CF.ADD / CF.ADDNX makes: InsertUnique when the name ends in x
CFAddInsert(cf, name, h, growOK) ==
    IF isNX(name) THEN CuckooFilter_InsertUnique(cf, h, growOK)
    ELSE CuckooFilter_Insert(cf, h, growOK)

\* args is << item >> or << item, capacity >>
CFAdd_RedisCommand(val, name, args, allocOK, growOK) ==
    IF Len(args) # 1 /\ Len(args) # 2
    THEN {[val |-> val, reply |-> << RArity >>]}
    ELSE LET status == cfGetFilter(val)
             capacity == IF Len(args) = 2 THEN args[2] ELSE Num(CuckooInitCap)
             made == IF status = SB_EMPTY
                     THEN cfCreate(capacity.n, allocOK) ELSE val
         IN  IF status = SB_EMPTY /\ ~capacity.ok
             THEN {[val |-> val, reply |-> << RErr("CAPACITY must be a number") >>]}
             ELSE IF status = SB_EMPTY /\ made.v = NoValue
             THEN {[val |-> made, reply |-> << RErr("Could not create filter") >>]}
             ELSE IF status # SB_EMPTY /\ status # SB_OK
             THEN {[val |-> val, reply |-> << RErr(statusStrerror(status)) >>]}
             ELSE { [val |-> Cuckoo(o.cf), reply |-> << CFAddReply(o.status) >>] :
                    o \in CFAddInsert(made.v, name, CUCKOO_GEN_HASH(args[1].n),
                                      growOK) }

\* faulty variant: CF.COUNT answers as CF.EXISTS does
CFCheckReplies_NoCount(val, name, items) ==
    LET one(i) == IF cfGetFilter(val) # SB_OK THEN RInt(0)
                  ELSE RInt(CuckooFilter_Check(val.v, CUCKOO_GEN_HASH(items[i])))
    IN  [i \in 1..Min(1, Len(items)) |-> one(i)]

\* the item loop of CF.EXISTS / CF.MEXISTS / CF.COUNT: the loop body ends in
\* a return, so only the first item is answered
CFCheckReplies(val, name, items) ==
    LET one(i) == IF cfGetFilter(val) # SB_OK THEN RInt(0)
                  ELSE IF isCount(name)
                  THEN RInt(CuckooFilter_Count(val.v, CUCKOO_GEN_HASH(items[i])))
                  ELSE RInt(CuckooFilter_Check(val.v, CUCKOO_GEN_HASH(items[i])))
    IN  [i \in 1..Min(1, Len(items)) |-> one(i)]

CFCheck_RedisCommand(val, name, items) ==
    IF (~isMulti(name) /\ Len(items) # 1) \/ (isMulti(name) /\ Len(items) < 1)
    THEN [val |-> val, reply |-> << RArity >>]
    ELSE [val |-> val,
          reply |-> (IF isMulti(name) THEN << RArr(Len(items)) >> ELSE <<>>)
                    \o CFCheckReplies(val, name, items)]

\* faulty variant: the delete is made and 0 is replied
CFDel_ReplyZero(val, items) ==
    IF Len(items) # 1 THEN [val |-> val, reply |-> << RArity >>]
    ELSE IF cfGetFilter(val) # SB_OK
    THEN [val |-> val, reply |-> << RErr("Not found") >>]
    ELSE LET r == CuckooFilter_Delete(val.v, CUCKOO_GEN_HASH(items[1]))
         IN  [val |-> Cuckoo(r.cf), reply |-> << RInt(0) >>]

CFDel_RedisCommand(val, items) ==
    IF Len(items) # 1 THEN [val |-> val, reply |-> << RArity >>]
    ELSE IF cfGetFilter(val) # SB_OK
    THEN [val |-> val, reply |-> << RErr("Not found") >>]
    ELSE LET r == CuckooFilter_Delete(val.v, CUCKOO_GEN_HASH(items[1]))
         IN  [val |-> Cuckoo(r.cf), reply |-> << RInt(r.rv) >>]

\* faulty variant: a chunk may be one byte longer than MAX_SCANDUMP_SIZE
CFScanDump_OverCap(val, args) ==
    IF Len(args) # 1 THEN [val |-> val, reply |-> << RArity >>]
    ELSE IF ~args[1].ok
    THEN [val |-> val, reply |-> << RErr("Invalid position") >>]
    ELSE IF cfGetFilter(val) # SB_OK
    THEN [val |-> val, reply |-> << RErr(statusStrerror(cfGetFilter(val))) >>]
    ELSE IF val.v.numItems = 0
    THEN [val |-> val, reply |-> << RArr(2), RInt(-1), RNull >>]
    ELSE LET c == CF_GetEncodedChunk(val.v, args[1].n, MAX_SCANDUMP_SIZE + 1)
         IN  IF c.isNull
             THEN [val |-> val, reply |-> << RArr(2), RInt(0), RNull >>]
             ELSE [val |-> val, reply |-> << RArr(2), RInt(c.pos), RBuf(c.buf) >>]

CFScanDump_RedisCommand(val, args) ==
    IF Len(args) # 1 THEN [val |-> val, reply |-> << RArity >>]
    ELSE IF ~args[1].ok
    THEN [val |-> val, reply |-> << RErr("Invalid position") >>]
    ELSE IF cfGetFilter(val) # SB_OK
    THEN [val |-> val, reply |-> << RErr(statusStrerror(cfGetFilter(val))) >>]
    ELSE IF val.v.numItems = 0
    THEN [val |-> val, reply |-> << RArr(2), RInt(-1), RNull >>]
    ELSE LET c == CF_GetEncodedChunk(val.v, args[1].n, MAX_SCANDUMP_SIZE)
         IN  IF c.isNull
             THEN [val |-> val, reply |-> << RArr(2), RInt(0), RNull >>]
             ELSE [val |-> val, reply |-> << RArr(2), RInt(c.pos), RBuf(c.buf) >>]


\* on success the value is set and the handler returns without a reply
CFLoadHeader_RedisCommand(val, buf, allocOK) ==
    IF cfGetFilter(val) # SB_EMPTY
    THEN [val |-> val, reply |-> << RErr(statusStrerror(cfGetFilter(val))) >>]
    ELSE IF Len(buf) # CFHeaderLen
    THEN [val |-> val, reply |-> << RErr("Invalid header") >>]
    ELSE LET cf == CFHeader_Load(buf, allocOK)
         IN  IF cf = NoValue
             THEN [val |-> val, reply |-> << RErr("Couldn't create filter!") >>]
             ELSE [val |-> Cuckoo(cf), reply |-> <<>>]

\* faulty variant: OK is replied and the chunk is not written
CFLoadChunk_NoWrite(val, args, buf) ==
    IF Len(args) # 1 THEN [val |-> val, reply |-> << RArity >>]
    ELSE IF cfGetFilter(val) # SB_OK
    THEN [val |-> val, reply |-> << RErr(statusStrerror(cfGetFilter(val))) >>]
    ELSE IF ~args[1].ok
    THEN [val |-> val, reply |-> << RErr("Invalid position") >>]
    ELSE [val |-> val, reply |-> << RStr("OK") >>]

CFLoadChunk_RedisCommand(val, args, buf) ==
    IF Len(args) # 1 THEN [val |-> val, reply |-> << RArity >>]
    ELSE IF cfGetFilter(val) # SB_OK
    THEN [val |-> val, reply |-> << RErr(statusStrerror(cfGetFilter(val))) >>]
    ELSE IF ~args[1].ok
    THEN [val |-> val, reply |-> << RErr("Invalid position") >>]
    ELSE LET r == CF_LoadEncodedChunk(val.v, args[1].n, buf)
         IN  IF r.rc # 0
             THEN [val |-> val, reply |-> << RErr("Couldn't load chunk!") >>]
             ELSE [val |-> Cuckoo(r.cf), reply |-> << RStr("OK") >>]


\* faulty variant: only an absent key is refused
CFInfo_EmptyOnly(val, args) ==
    IF Len(args) # 0 THEN [val |-> val, reply |-> << RArity >>]
    ELSE IF cfGetFilter(val) = SB_EMPTY
    THEN [val |-> val, reply |-> << RErr(statusStrerror(cfGetFilter(val))) >>]
    ELSE [val |-> val,
          reply |-> << RInfo("bktsize buckets items deletes filters",
                             << CUCKOO_BKTSIZE, 0, 0, 0, 0 >>) >>]

\* REDISMODULE_OK of the host's API, which CFInfo compares the status with
REDISMODULE_OK == SB_OK

\* CF.DEBUG key: the filter's counters
CFInfo_RedisCommand(val, args) ==
    IF Len(args) # 0 THEN [val |-> val, reply |-> << RArity >>]
    ELSE IF cfGetFilter(val) # REDISMODULE_OK
    THEN [val |-> val, reply |-> << RErr(statusStrerror(cfGetFilter(val))) >>]
    ELSE LET cf == val.v
         IN  [val |-> val,
              reply |-> << RInfo("bktsize buckets items deletes filters",
                                 << CUCKOO_BKTSIZE, cf.numBuckets, cf.numItems,
                                    cf.numDeletes, cf.numFilters >>) >>]

\* CFMemUsage: sizeof(filter), counted as 1, plus the bucket arrays
CFMemUsage(cf) == 1 + CUCKOO_BKTSIZE * cf.numBuckets * cf.numFilters

\* faulty variant: each chunk goes out with the position it starts at
RECURSIVE CFAofChunks_StartPos(_, _)
CFAofChunks_StartPos(cf, pos) ==
    LET c == CF_GetEncodedChunk(cf, pos, MAX_SCANDUMP_SIZE)
    IN  IF c.isNull THEN <<>>
        ELSE << [name |-> "CF.LOADCHUNK", pos |-> Num(pos), buf |-> c.buf] >>
             \o CFAofChunks_StartPos(cf, c.pos)

\* the chunk commands CFAofRewrite emits from pos on
RECURSIVE CFAofChunks(_, _)
CFAofChunks(cf, pos) ==
    LET c == CF_GetEncodedChunk(cf, pos, MAX_SCANDUMP_SIZE)
    IN  IF c.isNull THEN <<>>
        ELSE << [name |-> "CF.LOADCHUNK", pos |-> Num(c.pos), buf |-> c.buf] >>
             \o CFAofChunks(cf, c.pos)

\* CFAofRewrite: CF.LOADHDR with the header, then one command per chunk
CFAofRewrite(cf) ==
    << [name |-> "CF.LOADHDR", pos |-> Num(0), buf |-> CFHeader(cf)] >>
    \o CFAofChunks(cf, 0)

(***************************************************************************)
(* The snapshot (RDB) callbacks (src/rebloom.c:616-737).  The stream is the *)
(* sequence of the values saved, each a sequence: << n >> for a number, the *)
(* bytes for a string buffer.  A field the loader does not set keeps the    *)
(* zero of Calloc.                                                          *)
(***************************************************************************)
BF_ENCODING_VERSION == 1

\* the bytes of a layer's bit vector
LinkBytes(link) == [k \in 1..link.bytes |-> ByteOf(link.bf, k - 1)]

\* the bits set in a string of bytes
BytesBits(buf) == UNION { BitsOf(buf[k], k - 1) : k \in 1..Len(buf) }

RECURSIVE BFRdbSaveLinks(_)
BFRdbSaveLinks(links) ==
    IF links = <<>> THEN <<>>
    ELSE LET bm == Head(links)
         IN  << << bm.entries >>, << bm.error >>, << bm.hashes >>, << bm.bpe >>,
                << bm.bits >>, << bm.n2 >>, LinkBytes(bm), << bm.size >> >>
             \o BFRdbSaveLinks(Tail(links))

BFRdbSave(sb) == << << sb.size >>, << sb.nfilters >> >> \o BFRdbSaveLinks(sb.filters)

\* the stream of the same chain as the legacy version (encver 0) wrote it:
\* no bits and no n2
RECURSIVE LegacySaveLinks(_)
LegacySaveLinks(links) ==
    IF links = <<>> THEN <<>>
    ELSE LET bm == Head(links)
         IN  << << bm.entries >>, << bm.error >>, << bm.hashes >>, << bm.bpe >>,
                LinkBytes(bm), << bm.size >> >>
             \o LegacySaveLinks(Tail(links))

LegacySave(sb) == << << sb.size >>, << sb.nfilters >> >> \o LegacySaveLinks(sb.filters)

\* faulty variant: no version is refused; a later one is read as the current
BFRdbLoad_NoGate(io, encver) ==
    LET per == IF encver = 0 THEN 6 ELSE 8
    IN  [size |-> io[1][1], nfilters |-> io[2][1], growth |-> 0,
         tightening |-> 0,
         filters |-> [i \in 1..io[2][1] |->
             LET o == 2 + per * (i - 1)
                 e == io[o + 1][1]
                 bpe == io[o + 4][1]
                 buf == io[o + per - 1]
             IN  [entries |-> e, error |-> io[o + 2][1],
                  hashes |-> io[o + 3][1], bpe |-> bpe,
                  bits |-> IF encver = 0 THEN (e * bpe) \div 1000
                           ELSE io[o + 5][1],
                  n2 |-> IF encver = 0 THEN 0 ELSE io[o + 6][1],
                  bytes |-> Len(buf), bf |-> BytesBits(buf),
                  size |-> io[o + per][1]]]]

\* BFRdbLoad: NULL above the current version; the chain's growth and
\* tightening are not in the stream; with encver 0 a layer has six values
\* and bits is (double)entries * bpe truncated, with encver 1 eight
BFRdbLoad(io, encver) ==
    IF encver > BF_ENCODING_VERSION THEN NoValue
    ELSE LET per == IF encver = 0 THEN 6 ELSE 8
         IN  [size |-> io[1][1], nfilters |-> io[2][1], growth |-> 0,
              tightening |-> 0,
              filters |-> [i \in 1..io[2][1] |->
                  LET o == 2 + per * (i - 1)
                      e == io[o + 1][1]
                      bpe == io[o + 4][1]
                      buf == io[o + per - 1]
                  IN  [entries |-> e, error |-> io[o + 2][1],
                       hashes |-> io[o + 3][1], bpe |-> bpe,
                       bits |-> IF encver = 0 THEN (e * bpe) \div 1000
                                ELSE io[o + 5][1],
                       n2 |-> IF encver = 0 THEN 0 ELSE io[o + 6][1],
                       bytes |-> Len(buf), bf |-> BytesBits(buf),
                       size |-> io[o + per][1]]]]

\* the bytes of sub-filter j
SubBuffer(cf, j) == [k \in 1..SubBytes(cf) |-> SubByte(cf, j, k - 1)]

CFRdbSave(cf) ==
    << << cf.numFilters >>, << cf.numBuckets >>, << cf.numItems >> >>
    \o [j \in 1..cf.numFilters |-> SubBuffer(cf, j)]

\* CFRdbLoad: NULL above the current version; numDeletes is not in the stream
CFRdbLoad(io, encver) ==
    IF encver > BF_ENCODING_VERSION THEN NoValue
    ELSE [numItems |-> io[3][1], numBuckets |-> io[2][1], numDeletes |-> 0,
          numFilters |-> io[1][1],
          filters |-> [j \in 1..io[1][1] |->
              [b \in 1..io[2][1] |->
                  [sl \in 1..CUCKOO_BKTSIZE |->
                      io[3 + j][(b - 1) * CUCKOO_BKTSIZE + sl]]]]]

(***************************************************************************)
(* The state.                                                              *)
(*   db      the keyspace: the value stored under each key                 *)
(*   reply   the reply calls the last command made                         *)
(*   cmd     the last command: its name, key and item arguments            *)
(*   added   per key, the items passed to BF.ADD / BF.MADD since the key   *)
(*           last became a chain                                           *)
(*   net     per item, the CF.ADD / CF.ADDNX on k1 that replied 1 minus    *)
(*           the CF.DEL on k1 that replied 1, since k1 became a filter     *)
(*   everIns the items some CF.ADD / CF.ADDNX on k1 replied 1 for          *)
(*   pc      what the client is doing: "build" (commands on k1), "scan"    *)
(*           (dumping k1), "load" (replaying log into k2), "done"          *)
(*   mode    "dump" (SCANDUMP then LOADCHUNK) or "aof" (AOF rewrite then   *)
(*           replay), "none" while building                                *)
(*   cursor  the cursor the next SCANDUMP passes                           *)
(*   log     the commands to replay: [name, pos, buf]                      *)
(*   ix      the next command of log to replay                             *)
(*   ok      whether no replayed command replied an error                  *)
(*   rdb     the snapshot stream the host saved for k1                     *)
(*   encver  the encoding version the snapshot is loaded with              *)
(*   kick    the hash of a fingerprint that kicks move about, and the      *)
(*           bucket of sub-filter 0 it sits in                             *)
(*   replica the keyspace of a replica that applies the propagated         *)
(*           commands                                                      *)
(***************************************************************************)
VARIABLES db, reply, cmd, added, net, everIns, pc, mode, cursor, log, ix, ok,
          rdb, encver, kick, replica

vars == << db, reply, cmd, added, net, everIns, pc, mode, cursor, log, ix, ok,
          rdb, encver,
                    kick, replica >>

session == << pc, mode, cursor, log, ix, ok, rdb, encver,
                    kick, replica >>

NoCmd == [name |-> "", key |-> "", items |-> <<>>]

Cmd(name, key, items) == [name |-> name, key |-> key, items |-> items]

\* item lists of 0..MaxArgs items
ItemSeqs == UNION { [1..n -> Items] : n \in 0..MaxArgs }

\* the error rates and capacities clients pass to BF.RESERVE / CF.RESERVE
ErrArgs == {NotANumber, Num(0), Num(-1), Num(1), Num(2)}

CapArgs == {NotANumber, HugeNumber, Num(0), Num(-1), Num(1), Num(2), Num(4)}

IsError(r) == r # <<>> /\ r[1].t = "err"

\* a NULL filter stored by a failed cfCreate: a CF command that reads it
\* dereferences NULL and the server dies, so no such command is modelled
NullFilter(val) == val.type = "cuckoo" /\ val.v = NoValue

\* the inserts that replied 1 minus the deletes that replied 1, over all items
TotalNet == SumSeq([x \in 1..NumItems |-> net[x]])

Init ==
    /\ db = [k \in Keys |-> EmptyKey]
    /\ reply = <<>>
    /\ cmd = NoCmd
    /\ added = [k \in Keys |-> {}]
    /\ net = [x \in Items |-> 0]
    /\ everIns = {}
    /\ pc = "build"
    /\ mode = "none"
    /\ cursor = 0
    /\ log = <<>>
    /\ ix = 1
    /\ ok = TRUE
    /\ rdb = <<>>
    /\ encver = 0
    /\ kick = [h |-> 0, b |-> 0]
    /\ replica = [k \in Keys |-> EmptyKey]

Forget ==
    /\ added' = [added EXCEPT !["k1"] = {}]
    /\ net' = [x \in Items |-> 0]
    /\ everIns' = {}

\* the host's own commands on the key: SET and DEL
HostSet ==
    /\ pc = "build"
    /\ db' = [db EXCEPT !["k1"] = StringKey]
    /\ reply' = << RStr("OK") >>
    /\ cmd' = Cmd("SET", "k1", <<>>)
    /\ Forget
    /\ UNCHANGED session

HostDel ==
    /\ pc = "build"
    /\ db' = [db EXCEPT !["k1"] = EmptyKey]
    /\ reply' = << RInt(IF db["k1"].type = "empty" THEN 0 ELSE 1) >>
    /\ cmd' = Cmd("DEL", "k1", <<>>)
    /\ Forget
    /\ UNCHANGED session

BFReserve(args, allocOK) ==
    /\ pc = "build"
    /\ LET r == BFReserve_RedisCommand(db["k1"], args, allocOK)
       IN  /\ db' = [db EXCEPT !["k1"] = r.val]
           /\ reply' = r.reply
    /\ cmd' = Cmd("BF.RESERVE", "k1", <<>>)
    /\ UNCHANGED << added, net, everIns, session >>

BFAdd(name, items, allocOK) ==
    /\ pc = "build"
    /\ (IF db["k1"].type = "bloom" THEN db["k1"].v.size ELSE 0) + Len(items)
          <= MaxBloomAdds
    /\ LET r == BFAdd_RedisCommand(db["k1"], name, items, allocOK)
       IN  /\ db' = [db EXCEPT !["k1"] = r.val]
           /\ reply' = r.reply
           /\ added' = IF IsError(r.reply) THEN added
                       ELSE [added EXCEPT !["k1"] =
                                @ \cup { items[i] : i \in 1..Len(items) }]
    /\ cmd' = Cmd(name, "k1", items)
    /\ UNCHANGED << net, everIns, session >>

BFCheck(name, items) ==
    /\ pc = "build"
    /\ LET r == BFCheck_RedisCommand(db["k1"], name, items)
       IN  /\ db' = [db EXCEPT !["k1"] = r.val]
           /\ reply' = r.reply
    /\ cmd' = Cmd(name, "k1", items)
    /\ UNCHANGED << added, net, everIns, session >>

CFReserve(args, allocOK) ==
    /\ pc = "build"
    /\ LET r == CFReserve_RedisCommand(db["k1"], args, allocOK)
       IN  /\ db' = [db EXCEPT !["k1"] = r.val]
           /\ reply' = r.reply
    /\ cmd' = Cmd("CF.RESERVE", "k1", <<>>)
    /\ UNCHANGED << added, net, everIns, session >>

CFAdd(name, x, caps, allocOK, growOK) ==
    /\ pc = "build"
    /\ ~NullFilter(db["k1"])
    /\ (IF db["k1"].type = "cuckoo" THEN db["k1"].v.numItems ELSE 0) < MaxCuckooAdds
    /\ \E r \in CFAdd_RedisCommand(db["k1"], name, << Num(x) >> \o caps,
                                   allocOK, growOK) :
           /\ db' = [db EXCEPT !["k1"] = r.val]
           /\ reply' = r.reply
           /\ net' = IF r.reply = << RInt(1) >>
                     THEN [net EXCEPT ![x] = @ + 1] ELSE net
           /\ everIns' = IF r.reply = << RInt(1) >>
                         THEN everIns \cup {x} ELSE everIns
    /\ cmd' = Cmd(name, "k1", << x >>)
    /\ UNCHANGED << added, session >>

CFCheck(name, items) ==
    /\ pc = "build"
    /\ ~NullFilter(db["k1"])
    /\ LET r == CFCheck_RedisCommand(db["k1"], name, items)
       IN  /\ db' = [db EXCEPT !["k1"] = r.val]
           /\ reply' = r.reply
    /\ cmd' = Cmd(name, "k1", items)
    /\ UNCHANGED << added, net, everIns, session >>

CFDel(items) ==
    /\ pc = "build"
    /\ ~NullFilter(db["k1"])
    /\ \A i \in 1..Len(items) : net[items[i]] > -MaxOverDel
    /\ (IF db["k1"].type = "cuckoo" THEN db["k1"].v.numDeletes ELSE 0) < MaxDeletes
    /\ LET r == CFDel_RedisCommand(db["k1"], items)
       IN  /\ db' = [db EXCEPT !["k1"] = r.val]
           /\ reply' = r.reply
           /\ net' = IF r.reply = << RInt(1) >>
                     THEN [net EXCEPT ![items[1]] = @ - 1] ELSE net
    /\ cmd' = Cmd("CF.DEL", "k1", items)
    /\ UNCHANGED << added, everIns, session >>


BFInfo ==
    /\ pc = "build"
    /\ LET r == BFInfo_RedisCommand(db["k1"], <<>>)
       IN  /\ db' = [db EXCEPT !["k1"] = r.val]
           /\ reply' = r.reply
    /\ cmd' = Cmd("BF.DEBUG", "k1", <<>>)
    /\ UNCHANGED << added, net, everIns, session >>

CFInfo ==
    /\ pc = "build"
    /\ ~NullFilter(db["k1"])
    /\ LET r == CFInfo_RedisCommand(db["k1"], <<>>)
       IN  /\ db' = [db EXCEPT !["k1"] = r.val]
           /\ reply' = r.reply
    /\ cmd' = Cmd("CF.DEBUG", "k1", <<>>)
    /\ UNCHANGED << added, net, everIns, session >>

(***************************************************************************)
(* The client that copies k1 into the empty key k2: by SCANDUMP and        *)
(* LOADCHUNK (mode "dump"), or as the host does on an AOF rewrite and the  *)
(* replay of the rewritten file (mode "aof").  k1 is left alone meanwhile. *)
(***************************************************************************)
IsFilter(val) == val.type \in {"bloom", "cuckoo"} /\ val.v # NoValue

LoadCmd(name, pos, buf) == [name |-> name, pos |-> Num(pos), buf |-> buf]

\* the dump starts at cursor 0; a cuckoo filter's header goes first, by CF.LOADHDR
StartScan ==
    /\ pc = "build"
    /\ IsFilter(db["k1"])
    /\ pc' = "scan"
    /\ mode' = "dump"
    /\ cursor' = 0
    /\ log' = IF db["k1"].type = "cuckoo"
              THEN << LoadCmd("CF.LOADHDR", 0, CFHeader(db["k1"].v)) >>
              ELSE <<>>
    /\ reply' = <<>>
    /\ cmd' = NoCmd
    /\ UNCHANGED << db, added, net, everIns, ix, ok, rdb, encver,
                    kick, replica >>

\* BF.SCANDUMP k1 cursor: the pair is kept; a zero-length chunk ends the scan
BFScanStep ==
    /\ pc = "scan"
    /\ db["k1"].type = "bloom"
    /\ LET r == BFScanDump_RedisCommand(db["k1"], << Num(cursor) >>)
       IN  /\ reply' = r.reply
           /\ log' = Append(log, LoadCmd("BF.LOADCHUNK", r.reply[2].n, r.reply[3].d))
           /\ IF r.reply[3].n = 0
              THEN pc' = "load" /\ cursor' = cursor
              ELSE pc' = pc /\ cursor' = r.reply[2].n
    /\ cmd' = Cmd("BF.SCANDUMP", "k1", <<>>)
    /\ UNCHANGED << db, added, net, everIns, mode, ix, ok, rdb, encver,
                    kick, replica >>

\* CF.SCANDUMP k1 cursor: a null chunk ends the scan
CFScanStep ==
    /\ pc = "scan"
    /\ db["k1"].type = "cuckoo"
    /\ LET r == CFScanDump_RedisCommand(db["k1"], << Num(cursor) >>)
       IN  /\ reply' = r.reply
           /\ IF r.reply[3].t = "null"
              THEN pc' = "load" /\ cursor' = cursor /\ log' = log
              ELSE /\ pc' = pc
                   /\ cursor' = r.reply[2].n
                   /\ log' = Append(log, LoadCmd("CF.LOADCHUNK", r.reply[2].n,
                                                 r.reply[3].d))
    /\ cmd' = Cmd("CF.SCANDUMP", "k1", <<>>)
    /\ UNCHANGED << db, added, net, everIns, mode, ix, ok, rdb, encver,
                    kick, replica >>

\* the host rewrites the AOF: the type's aof_rewrite emits the commands
AofRewrite(junk) ==
    /\ pc = "build"
    /\ IsFilter(db["k1"])
    /\ pc' = "load"
    /\ mode' = "aof"
    /\ log' = IF db["k1"].type = "bloom" THEN BFAofRewrite(db["k1"].v, junk)
              ELSE CFAofRewrite(db["k1"].v)
    /\ reply' = <<>>
    /\ cmd' = NoCmd
    /\ UNCHANGED << db, added, net, everIns, cursor, ix, ok, rdb, encver,
                    kick, replica >>

\* the handler a replayed command runs
Replay(val, c) ==
    CASE c.name = "BF.LOADCHUNK" ->
            BFLoadChunk_RedisCommand(val, << c.pos >>, c.buf, TRUE)
      [] c.name = "CF.LOADHDR" -> CFLoadHeader_RedisCommand(val, c.buf, TRUE)
      [] c.name = "CF.LOADCHUNK" ->
            CFLoadChunk_RedisCommand(val, << c.pos >>, c.buf)

\* the next command of the log, run against k2
LoadStep ==
    /\ pc = "load"
    /\ ix <= Len(log)
    /\ LET r == Replay(db["k2"], log[ix])
       IN  /\ db' = [db EXCEPT !["k2"] = r.val]
           /\ reply' = r.reply
           /\ ok' = (ok /\ ~IsError(r.reply))
    /\ ix' = ix + 1
    /\ cmd' = Cmd(log[ix].name, "k2", <<>>)
    /\ UNCHANGED << added, net, everIns, pc, mode, cursor, log, rdb, encver,
                    kick, replica >>

LoadDone ==
    /\ pc = "load"
    /\ ix > Len(log)
    /\ pc' = "done"
    /\ UNCHANGED << db, reply, cmd, added, net, everIns, mode, cursor, log, ix, ok,
                    rdb, encver,
                    kick, replica >>

\* the versions a snapshot may be loaded with: legacy, current, and a later one
EncVers == 0..(BF_ENCODING_VERSION + 1)

\* the host saves a snapshot of k1 with the type's rdb_save; a snapshot to
\* be loaded as legacy (encver 0) is one the legacy version wrote
RdbSave(v) ==
    /\ pc = "build"
    /\ IsFilter(db["k1"])
    /\ pc' = "rdbload"
    /\ mode' = "rdb"
    /\ encver' = v
    /\ rdb' = IF db["k1"].type = "cuckoo" THEN CFRdbSave(db["k1"].v)
              ELSE IF v = 0 THEN LegacySave(db["k1"].v)
              ELSE BFRdbSave(db["k1"].v)
    /\ reply' = <<>>
    /\ cmd' = NoCmd
    /\ UNCHANGED << db, added, net, everIns, cursor, log, ix, ok, kick, replica >>

\* the host loads the snapshot into k2 with the type's rdb_load; a NULL
\* result fails the load and nothing is stored
RdbLoad ==
    /\ pc = "rdbload"
    /\ LET v == IF db["k1"].type = "cuckoo" THEN CFRdbLoad(rdb, encver)
                ELSE BFRdbLoad(rdb, encver)
       IN  /\ db' = IF v = NoValue THEN db
                    ELSE [db EXCEPT !["k2"] = [type |-> db["k1"].type, v |-> v]]
           /\ ok' = (v # NoValue)
    /\ pc' = "done"
    /\ UNCHANGED << reply, cmd, added, net, everIns, mode, cursor, log, ix,
                    rdb, encver,
                    kick, replica >>

\* the arguments the clients of each specification pass
FewItemSeqs == {<<>>, << 1 >>, << 1, 2 >>}

ItemLists == UNION { [1..n -> Items] : n \in 1..MaxArgs }

GoodErrArgs == {Num(1), Num(2)}

GoodCapArgs == {Num(1), Num(2)}

CuckooCaps == {<<>>, << Num(2) >>}

(***************************************************************************)
(* SpecBloom: bloom commands on k1, then a copy of k1 into k2.             *)
(***************************************************************************)
NextBloom ==
    \/ \E e \in GoodErrArgs, c \in GoodCapArgs : BFReserve(<< e, c >>, TRUE)
    \/ \E n \in {"BF.ADD", "BF.MADD"}, it \in ItemLists, a \in BOOLEAN : BFAdd(n, it, a)
    \/ \E n \in {"BF.EXISTS", "BF.MEXISTS"}, it \in ItemLists : BFCheck(n, it)
    \/ StartScan
    \/ BFScanStep
    \/ \E junk \in {0, 1} : AofRewrite(junk)
    \/ LoadStep
    \/ LoadDone

SpecBloom == Init /\ [][NextBloom]_vars

(***************************************************************************)
(* SpecCuckoo: cuckoo commands on k1, then a copy of k1 into k2.           *)
(***************************************************************************)
NextCuckoo ==
    \/ \E c \in {Num(2), Num(4)} : CFReserve(<< c >>, TRUE)
    \/ \E n \in {"CF.ADD", "CF.ADDNX"}, x \in Items, caps \in CuckooCaps,
          a, g \in BOOLEAN : CFAdd(n, x, caps, a, g)
    \/ \E n \in {"CF.EXISTS", "CF.MEXISTS", "CF.COUNT"}, it \in ItemLists :
          (n # "CF.MEXISTS" => Len(it) = 1) /\ CFCheck(n, it)
    \/ \E x \in Items : CFDel(<< x >>)
    \/ StartScan
    \/ CFScanStep
    \/ \E junk \in {0, 1} : AofRewrite(junk)
    \/ LoadStep
    \/ LoadDone

SpecCuckoo == Init /\ [][NextCuckoo]_vars


(***************************************************************************)
(* SpecDump: a filter of either type is built on k1 and then dumped by a   *)
(* client that starts at cursor 0 and passes back the cursor it was given. *)
(* The client goes on until the end-of-stream reply: each SCANDUMP step is *)
(* weakly fair.                                                            *)
(***************************************************************************)
NextDump ==
    \/ \E e \in GoodErrArgs, c \in GoodCapArgs : BFReserve(<< e, c >>, TRUE)
    \/ \E n \in {"BF.ADD", "BF.MADD"}, it \in ItemLists : BFAdd(n, it, TRUE)
    \/ \E n \in {"CF.ADD", "CF.ADDNX"}, x \in Items, caps \in CuckooCaps,
          g \in BOOLEAN : CFAdd(n, x, caps, TRUE, g)
    \/ \E x \in Items : CFDel(<< x >>)
    \/ StartScan
    \/ BFScanStep
    \/ CFScanStep

SpecDump ==
    Init /\ [][NextDump]_vars /\ WF_vars(BFScanStep) /\ WF_vars(CFScanStep)


(***************************************************************************)
(* SpecAlt: the alternate bucket.  k1 holds a cuckoo filter of a power of  *)
(* two buckets into which one hash was inserted; a kick evicts its         *)
(* fingerprint from the bucket i it sits in and places it in alt(i, fp),   *)
(* as TryInsert does with the fingerprint it evicts.                       *)
(***************************************************************************)
AltBuckets == { Pow(2, k) : k \in 0..MaxLogBuckets }

\* the hashes with every fingerprint byte and every primary index
AltHashes(nb) == { 256 * f + i : f \in 0..255, i \in 0..(nb - 1) }

InitAlt ==
    /\ \E nb \in AltBuckets : \E h \in AltHashes(nb) :
       \E o \in CuckooFilter_Insert(
                    CuckooFilter_Init(nb * CUCKOO_BKTSIZE, TRUE), h, TRUE) :
          /\ db = [k \in Keys |-> IF k = "k1" THEN Cuckoo(o.cf) ELSE EmptyKey]
          /\ kick = [h |-> h, b |-> h % nb]
    /\ reply = <<>>
    /\ cmd = NoCmd
    /\ added = [k \in Keys |-> {}]
    /\ net = [x \in Items |-> 0]
    /\ everIns = {}
    /\ pc = "build"
    /\ mode = "none"
    /\ cursor = 0
    /\ log = <<>>
    /\ ix = 1
    /\ ok = TRUE
    /\ rdb = <<>>
    /\ encver = 0
    /\ replica = [k \in Keys |-> EmptyKey]

\* one kick of the followed fingerprint: fp' leaves bucket i, i <- alt(i, fp'),
\* and fp' is placed in an empty slot of bucket i
Kick ==
    /\ pc = "build"
    /\ db["k1"].type = "cuckoo"
    /\ LET cf == db["k1"].v
           fp == Fingerprint(kick.h)
           sub == cf.filters[1]
           s == CHOOSE t \in SlotsWith(sub, kick.b, fp) : TRUE
           out == [sub EXCEPT ![kick.b + 1][s] = 0]
           i == getAltIndex(fp, kick.b, cf.numBuckets)
           s2 == Bucket_FindAvailable(out, i)
       IN  /\ db' = [db EXCEPT !["k1"].v.filters[1] =
                                   [out EXCEPT ![i + 1][s2] = fp]]
           /\ kick' = [kick EXCEPT !.b = i]
    /\ UNCHANGED << reply, cmd, added, net, everIns, pc, mode, cursor, log, ix, ok,
                    rdb, encver, replica >>

NextAlt == Kick

SpecAlt == InitAlt /\ [][NextAlt]_vars


(***************************************************************************)
(* SpecRepl: a primary and a replica.  Every command that can create or    *)
(* modify a filter is run on k1 of the primary; a handler that calls       *)
(* RedisModule_ReplicateVerbatim has the command run on the replica too,   *)
(* in the same order.  The allocations succeed on both.  (added, net and   *)
(* everIns are the bookkeeping of the other clients and are not kept.)     *)
(***************************************************************************)
\* a command as it arrives: its name and its arguments after the key
Command(name, args, items, buf) ==
    [name |-> name, args |-> args, items |-> items, buf |-> buf]

\* the commands whose handler calls RedisModule_ReplicateVerbatim
Propagated ==
    {"BF.RESERVE", "BF.ADD", "BF.MADD", "BF.LOADCHUNK", "CF.RESERVE", "CF.ADD",
     "CF.ADDNX", "CF.EXISTS", "CF.MEXISTS", "CF.COUNT", "CF.DEL"}

\* the results the handler of command c can have on a stored value
Run(val, c) ==
    CASE c.name = "BF.RESERVE" -> {BFReserve_RedisCommand(val, c.args, TRUE)}
      [] c.name \in {"BF.ADD", "BF.MADD"} ->
            {BFAdd_RedisCommand(val, c.name, c.items, TRUE)}
      [] c.name = "BF.LOADCHUNK" ->
            {BFLoadChunk_RedisCommand(val, c.args, c.buf, TRUE)}
      [] c.name = "CF.RESERVE" -> {CFReserve_RedisCommand(val, c.args, TRUE)}
      [] c.name \in {"CF.ADD", "CF.ADDNX"} ->
            CFAdd_RedisCommand(val, c.name, c.args, TRUE, TRUE)
      [] c.name = "CF.DEL" -> {CFDel_RedisCommand(val, c.items)}
      [] c.name = "CF.LOADHDR" -> {CFLoadHeader_RedisCommand(val, c.buf, TRUE)}
      [] c.name = "CF.LOADCHUNK" -> {CFLoadChunk_RedisCommand(val, c.args, c.buf)}

\* the headers and chunks a client loads: those of a fresh chain / filter,
\* and a chunk of one byte or one bucket for them
ChainHeader == SBChain_GetEncodedHeader(SB_NewChain(BloomInitCap, BloomErrLevel, TRUE))

FilterHeader == CFHeader(CuckooFilter_Init(CUCKOO_BKTSIZE, TRUE))

\* the items the client of SpecRepl passes
ReplItems == 1..MaxArgs

\* how many commands have built the filter of a stored value, at least
Weight(val) ==
    IF val.type = "bloom" THEN 1 + val.v.size
    ELSE IF val.type = "cuckoo"
    THEN 1 + val.v.numDeletes + (IF val.v.numItems > 0 THEN val.v.numItems ELSE 0)
    ELSE 0

\* the client stops before the primary or the replica is built by more than
\* MaxReplCmds commands
Room == Weight(db["k1"]) < MaxReplCmds /\ Weight(replica["k1"]) < MaxReplCmds

\* command c arrives for k1: the primary runs it, and so does the replica
\* if the handler propagates it
Exec(c) ==
    /\ pc = "build"
    /\ Room
    /\ \E r \in Run(db["k1"], c) :
          /\ db' = [db EXCEPT !["k1"] = r.val]
          /\ reply' = r.reply
    /\ cmd' = Cmd(c.name, "k1", c.items)
    /\ IF c.name \in Propagated
       THEN \E q \in Run(replica["k1"], c) :
               replica' = [replica EXCEPT !["k1"] = q.val]
       ELSE replica' = replica
    /\ UNCHANGED << added, net, everIns, pc, mode, cursor, log, ix, ok, rdb,
                    encver, kick >>

NextRepl ==
    \/ Exec(Command("BF.RESERVE", << Num(1), Num(1) >>, <<>>, <<>>))
    \/ \E n \in {"BF.ADD", "BF.MADD"}, x \in ReplItems :
          Exec(Command(n, <<>>, << x >>, <<>>))
    \/ Exec(Command("BF.LOADCHUNK", << Num(SB_CHUNKITER_INIT) >>, <<>>, ChainHeader))
    \/ Exec(Command("BF.LOADCHUNK", << Num(SB_CHUNKITER_INIT + 1) >>, <<>>, << 1 >>))
    \/ Exec(Command("CF.RESERVE", << Num(CUCKOO_BKTSIZE) >>, <<>>, <<>>))
    \/ \E n \in {"CF.ADD", "CF.ADDNX"}, x \in ReplItems :
          Exec(Command(n, << Num(x) >>, << x >>, <<>>))
    \/ \E x \in ReplItems : Exec(Command("CF.DEL", <<>>, << x >>, <<>>))
    \/ Exec(Command("CF.LOADHDR", <<>>, <<>>, FilterHeader))
    \/ Exec(Command("CF.LOADCHUNK", << Num(CUCKOO_BKTSIZE) >>, <<>>,
                    [s \in 1..CUCKOO_BKTSIZE |-> 1]))

SpecRepl == Init /\ [][NextRepl]_vars

(***************************************************************************)
(* Spec: every command, with every kind of argument, on a key that may     *)
(* hold a value of any type.                                               *)
(***************************************************************************)
Next ==
    \/ HostSet
    \/ HostDel
    \/ \E e \in ErrArgs, c \in CapArgs, a \in BOOLEAN : BFReserve(<< e, c >>, a)
    \/ \E n \in {"BF.ADD", "BF.MADD"}, it \in FewItemSeqs, a \in BOOLEAN : BFAdd(n, it, a)
    \/ \E n \in {"BF.EXISTS", "BF.MEXISTS"}, it \in FewItemSeqs : BFCheck(n, it)
    \/ \E c \in CapArgs, a \in BOOLEAN : CFReserve(<< c >>, a)
    \/ \E n \in {"CF.ADD", "CF.ADDNX"}, caps \in {<<>>} \cup { << c >> : c \in CapArgs },
          a, g \in BOOLEAN : CFAdd(n, 1, caps, a, g)
    \/ \E n \in {"CF.EXISTS", "CF.MEXISTS", "CF.COUNT"}, it \in FewItemSeqs : CFCheck(n, it)
    \/ \E it \in FewItemSeqs : CFDel(it)
    \/ BFInfo
    \/ CFInfo
    \/ \E v \in EncVers : RdbSave(v)
    \/ RdbLoad

Spec == Init /\ [][Next]_vars

(***************************************************************************)
(* Claims.                                                                 *)
(***************************************************************************)
\* what BF.EXISTS / CF.EXISTS / CF.COUNT reply for item x on a stored value
BFExists(val, x) == BFCheck_RedisCommand(val, "BF.EXISTS", << x >>).reply

CFExists(val, x) == CFCheck_RedisCommand(val, "CF.EXISTS", << x >>).reply

CFCount(val, x) == CFCheck_RedisCommand(val, "CF.COUNT", << x >>).reply

\* C1: bloom no-false-negatives.  Whatever BF.ADD / BF.MADD commands k1 has
\* seen, chain growth included, BF.EXISTS replies 1 and BF.MEXISTS replies
\* [1] for every item that was passed to one of them.
C1_BloomNoFalseNegatives ==
    db["k1"].type = "bloom" =>
        \A x \in added["k1"] :
            /\ BFExists(db["k1"], x) = << RInt(1) >>
            /\ BFCheck_RedisCommand(db["k1"], "BF.MEXISTS", << x >>).reply
                  = << RArr(1), RInt(1) >>

\* the chain has grown and an added item is found only in an older layer
C1_Witness ==
    /\ db["k1"].type = "bloom"
    /\ db["k1"].v.nfilters >= 2
    /\ \E x \in added["k1"] :
          ~bloom_check(db["k1"].v.filters[db["k1"].v.nfilters], x)

\* x and y are different items with the same fingerprint and the same two
\* candidate buckets in filter cf
Collide(cf, x, y) ==
    /\ x # y
    /\ Fingerprint(CUCKOO_GEN_HASH(x)) = Fingerprint(CUCKOO_GEN_HASH(y))
    /\ Candidates(cf, CUCKOO_GEN_HASH(x)) = Candidates(cf, CUCKOO_GEN_HASH(y))

\* no item that collides with x was ever inserted into or deleted from k1
Alone(x) ==
    \A y \in Items :
        Collide(db["k1"].v, x, y) => (y \notin everIns /\ net[y] = 0)

CuckooAtK1 == db["k1"].type = "cuckoo" /\ db["k1"].v # NoValue

\* C2 (as amended): cuckoo no-false-negatives.  After any CF.ADD / CF.ADDNX /
\* CF.DEL on k1, kicks and new sub-filters included, CF.EXISTS replies 1 for
\* every item whose inserts that replied 1 outnumber its deletes that replied
\* 1, provided no colliding item was inserted or deleted.
C2_CuckooNoFalseNegatives ==
    CuckooAtK1 =>
        \A x \in Items :
            (net[x] > 0 /\ Alone(x)) => CFExists(db["k1"], x) = << RInt(1) >>

\* C2 as stated: CF.EXISTS replies 1 for every item that was inserted and not
\* deleted more times than it was inserted (so also when deleted as often).
C2_AsStated ==
    CuckooAtK1 =>
        \A x \in Items :
            (x \in everIns /\ net[x] >= 0 /\ Alone(x))
                => CFExists(db["k1"], x) = << RInt(1) >>

\* a second sub-filter exists and a live item's fingerprint is in none of the
\* first sub-filter's buckets
C2_Witness ==
    /\ CuckooAtK1
    /\ db["k1"].v.numFilters >= 2
    /\ \E x \in Items :
          /\ net[x] > 0
          /\ Alone(x)
          /\ \A b \in Candidates(db["k1"].v, CUCKOO_GEN_HASH(x)) :
                SlotsWith(db["k1"].v.filters[1], b,
                          Fingerprint(CUCKOO_GEN_HASH(x))) = {}

\* C3: cuckoo count accounting.  numItems is the number of CF.ADD / CF.ADDNX
\* that replied 1 minus the number of CF.DEL that replied 1; commands that
\* reply 0 or an error leave it alone.
C3_CountAccounting ==
    CuckooAtK1 => db["k1"].v.numItems = TotalNet

\* an insert has just been refused or found present, after a delete
C3_Witness ==
    /\ CuckooAtK1
    /\ db["k1"].v.numItems >= 1
    /\ db["k1"].v.numDeletes >= 1
    /\ cmd.name \in {"CF.ADD", "CF.ADDNX"}
    /\ reply # << RInt(1) >>

\* the copy of k1 into k2 by SCANDUMP / LOADCHUNK, or by AOF rewrite and
\* replay, is over
Copied(m, type) ==
    pc = "done" /\ mode = m /\ db["k1"].type = type /\ db["k1"].v # NoValue

\* C4: bloom dump/load round-trip.  When every (cursor, data) pair BF.SCANDUMP
\* returned for the chain at k1, from cursor 0 to the zero-length end chunk,
\* has been replayed in order with BF.LOADCHUNK into the empty key k2, k2
\* holds a chain that answers BF.EXISTS as k1 does for every item and has the
\* same memory usage.
C4_BloomDumpLoad ==
    Copied("dump", "bloom") =>
        /\ db["k2"].type = "bloom"
        /\ \A x \in Items : BFExists(db["k2"], x) = BFExists(db["k1"], x)
        /\ BFMemUsage(db["k2"].v) = BFMemUsage(db["k1"].v)

\* a chain of two layers that holds some items and not others was copied in
\* four or more commands
C4_Witness ==
    /\ Copied("dump", "bloom")
    /\ db["k1"].v.nfilters >= 2
    /\ Len(log) >= 4
    /\ \E x, y \in Items :
          /\ BFExists(db["k1"], x) = << RInt(1) >>
          /\ BFExists(db["k1"], y) = << RInt(0) >>

\* C5: cuckoo dump/load round-trip.  When the header of the filter at k1 has
\* been loaded with CF.LOADHDR into the empty key k2 and every (cursor, chunk)
\* pair CF.SCANDUMP returned from cursor 0 to the end has been replayed with
\* CF.LOADCHUNK, k2 holds a filter that answers CF.EXISTS and CF.COUNT as k1
\* does for every item and has the same memory usage; also when numItems is 0.
C5_CuckooDumpLoad ==
    Copied("dump", "cuckoo") =>
        /\ db["k2"].type = "cuckoo"
        /\ \A x \in Items :
              /\ CFExists(db["k2"], x) = CFExists(db["k1"], x)
              /\ CFCount(db["k2"], x) = CFCount(db["k1"], x)
        /\ CFMemUsage(db["k2"].v) = CFMemUsage(db["k1"].v)

\* a filter of two sub-filters that holds an item twice was copied
C5_Witness ==
    /\ Copied("dump", "cuckoo")
    /\ db["k1"].v.numFilters >= 2
    /\ Len(log) >= 3
    /\ \E x \in Items : CFCount(db["k1"], x) = << RInt(2) >>

\* a filter whose numItems is 0 after a delete was copied
C5_WitnessEmpty ==
    /\ Copied("dump", "cuckoo")
    /\ db["k1"].v.numItems = 0
    /\ db["k1"].v.numDeletes >= 1
    /\ db["k2"].type = "cuckoo"

\* C6: bloom AOF replay.  When the commands BFAofRewrite emits for the chain
\* at k1 have been executed in order against the empty key k2, none of them
\* replied an error and k2 holds a chain identical to that of k1.
C6_BloomAofReplay ==
    Copied("aof", "bloom") => (ok /\ db["k2"] = db["k1"])

\* C7: cuckoo AOF replay.  When the commands CFAofRewrite emits for the filter
\* at k1 have been executed in order against the empty key k2, none of them
\* replied an error and k2 holds a filter with the numItems, numBuckets,
\* numDeletes, numFilters and bucket bytes of k1's.
C7_CuckooAofReplay ==
    Copied("aof", "cuckoo") =>
        /\ ok
        /\ db["k2"].type = "cuckoo"
        /\ db["k2"].v.numItems = db["k1"].v.numItems
        /\ db["k2"].v.numBuckets = db["k1"].v.numBuckets
        /\ db["k2"].v.numDeletes = db["k1"].v.numDeletes
        /\ db["k2"].v.numFilters = db["k1"].v.numFilters
        /\ db["k2"].v.filters = db["k1"].v.filters

\* a filter of two sub-filters, with items and a delete, was replayed
C7_Witness ==
    /\ Copied("aof", "cuckoo")
    /\ db["k1"].v.numFilters >= 2
    /\ db["k1"].v.numItems >= 1
    /\ db["k1"].v.numDeletes >= 1
    /\ Len(log) >= 3

\* C8: reserve on an occupied key.  Every BF.RESERVE or CF.RESERVE made when
\* the key holds a value (a filter of either type or a string) replies an
\* error and leaves the stored value as it was; a reserve that changes the
\* stored value was made on an empty key.
C8_ReserveOccupied ==
    [][ cmd'.name \in {"BF.RESERVE", "CF.RESERVE"} =>
            /\ db["k1"].type # "empty" => (IsError(reply') /\ db' = db)
            /\ db' # db => db["k1"].type = "empty" ]_vars

\* BF.RESERVE has just been refused on a key that holds a cuckoo filter with
\* an item in it
C8_Witness ==
    /\ cmd.name = "BF.RESERVE"
    /\ IsError(reply)
    /\ CuckooAtK1
    /\ db["k1"].v.numItems >= 1

\* C9: insert-unique does not mutate on a hit.  In every state, CF.ADDNX of an
\* item Check finds replies 0 and leaves the stored filter as it is, and
\* CF.ADDNX of an item Check does not find has exactly the results of CF.ADD.
C9_AddNXOnHit ==
    (CuckooAtK1 \/ db["k1"].type = "empty") =>
        \A x \in Items, a, g \in BOOLEAN :
            LET nx == CFAdd_RedisCommand(db["k1"], "CF.ADDNX", << Num(x) >>, a, g)
                ad == CFAdd_RedisCommand(db["k1"], "CF.ADD", << Num(x) >>, a, g)
            IN  IF CuckooAtK1 /\ CFExists(db["k1"], x) = << RInt(1) >>
                THEN nx = {[val |-> db["k1"], reply |-> << RInt(0) >>]}
                ELSE nx = ad

\* CF.ADDNX has just replied 0 for an item whose fingerprint another item put
\* there
C9_Witness ==
    /\ CuckooAtK1
    /\ cmd.name = "CF.ADDNX"
    /\ reply = << RInt(0) >>
    /\ cmd.items[1] \notin everIns

\* C10: CF.MEXISTS with n >= 1 items replies an array of n results, the i-th
\* the Check answer for the i-th item.
C10_MExistsAll ==
    (cmd.name = "CF.MEXISTS" /\ Len(cmd.items) >= 1 /\ CuckooAtK1) =>
        reply = << RArr(Len(cmd.items)) >>
                \o [i \in 1..Len(cmd.items) |->
                       RInt(CuckooFilter_Check(db["k1"].v,
                                               CUCKOO_GEN_HASH(cmd.items[i])))]


\* what BF.ADD replies for item x on a stored value
BFAddReply(val, x) == BFAdd_RedisCommand(val, "BF.ADD", << x >>, TRUE).reply

\* what BF.MADD replies for the one item x on a stored value
BFMAddReply(val, x) == BFAdd_RedisCommand(val, "BF.MADD", << x >>, TRUE).reply

\* the chain has a layer with size < entries: the next add appends no layer
Unsaturated(sb) ==
    \E i \in 1..sb.nfilters : sb.filters[i].size < sb.filters[i].entries

SlotDiff(cf1, cf2) ==
    { jbs \in (1..cf1.numFilters) \X (1..cf1.numBuckets) \X (1..CUCKOO_BKTSIZE) :
        cf1.filters[jbs[1]][jbs[2]][jbs[3]] # cf2.filters[jbs[1]][jbs[2]][jbs[3]] }

\* C12: cuckoo multiplicity.  For an item x with no colliding item in use,
\* CF.COUNT x is the number of inserts of x that replied 1 minus the number
\* of CF.DEL x that replied 1 (duplicates are counted); in every state a
\* CF.DEL that replies 1 zeroes exactly one slot, which held x's fingerprint,
\* and lowers CF.COUNT x and numItems by 1, and a CF.DEL that replies 0
\* leaves the stored filter as it is.
C12_Multiplicity ==
    CuckooAtK1 =>
        \A x \in Items :
            LET cf == db["k1"].v
                d == CFDel_RedisCommand(db["k1"], << x >>)
            IN  /\ Alone(x) => CFCount(db["k1"], x) = << RInt(net[x]) >>
                /\ d.reply \in {<< RInt(0) >>, << RInt(1) >>}
                /\ d.reply = << RInt(0) >> => d.val = db["k1"]
                /\ d.reply = << RInt(1) >> =>
                      /\ CFCount(d.val, x)[1].n = CFCount(db["k1"], x)[1].n - 1
                      /\ d.val.v.numItems = cf.numItems - 1
                      /\ d.val.v.numFilters = cf.numFilters
                      /\ d.val.v.numBuckets = cf.numBuckets
                      /\ Cardinality(SlotDiff(cf, d.val.v)) = 1
                      /\ \A jbs \in SlotDiff(cf, d.val.v) :
                            /\ cf.filters[jbs[1]][jbs[2]][jbs[3]]
                                  = Fingerprint(CUCKOO_GEN_HASH(x))
                            /\ d.val.v.filters[jbs[1]][jbs[2]][jbs[3]] = 0

\* an item inserted three times has just been deleted once: its count is 2
C12_Witness ==
    /\ CuckooAtK1
    /\ cmd.name = "CF.DEL"
    /\ reply = << RInt(1) >>
    /\ Alone(cmd.items[1])
    /\ net[cmd.items[1]] = 2
    /\ CFCount(db["k1"], cmd.items[1]) = << RInt(2) >>


\* the results of the BF.* commands, each with well-formed arguments, on a
\* stored value
BloomRuns(val) ==
    { BFReserve_RedisCommand(val, << Num(1), Num(1) >>, TRUE),
      BFAdd_RedisCommand(val, "BF.ADD", << 1 >>, TRUE),
      BFAdd_RedisCommand(val, "BF.MADD", << 1, 2 >>, TRUE),
      BFCheck_RedisCommand(val, "BF.EXISTS", << 1 >>),
      BFCheck_RedisCommand(val, "BF.MEXISTS", << 1, 2 >>),
      BFScanDump_RedisCommand(val, << Num(0) >>),
      BFLoadChunk_RedisCommand(val, << Num(1) >>,
          SBChain_GetEncodedHeader(SB_NewChain(1, 1, TRUE)), TRUE) }

\* the results of the CF.* commands, each with well-formed arguments, on a
\* stored value
CuckooRuns(val) ==
    { CFReserve_RedisCommand(val, << Num(2) >>, TRUE),
      CFCheck_RedisCommand(val, "CF.EXISTS", << 1 >>),
      CFCheck_RedisCommand(val, "CF.MEXISTS", << 1, 2 >>),
      CFCheck_RedisCommand(val, "CF.COUNT", << 1 >>),
      CFDel_RedisCommand(val, << 1 >>),
      CFScanDump_RedisCommand(val, << Num(0) >>),
      CFLoadHeader_RedisCommand(val, CFHeader(CuckooFilter_Init(2, TRUE)), TRUE),
      CFLoadChunk_RedisCommand(val, << Num(2) >>, << 0, 0 >>) }
    \cup CFAdd_RedisCommand(val, "CF.ADD", << Num(1) >>, TRUE, TRUE)
    \cup CFAdd_RedisCommand(val, "CF.ADDNX", << Num(1) >>, TRUE, TRUE)

\* a command's result is the WRONGTYPE error and the value is left alone
IsWrongType(val, r) == r = [val |-> val, reply |-> << RErr("WRONGTYPE") >>]

\* C13: wrong-type keys.  Whenever the key holds a value of another type (a
\* string, or the other filter type), every BF.* / CF.* command replies the
\* WRONGTYPE error and leaves the value unchanged.
C13_WrongType ==
    /\ bfGetChain(db["k1"]) = SB_MISMATCH =>
          \A r \in BloomRuns(db["k1"]) : IsWrongType(db["k1"], r)
    /\ cfGetFilter(db["k1"]) = SB_MISMATCH =>
          \A r \in CuckooRuns(db["k1"]) : IsWrongType(db["k1"], r)


\* the argument pairs of BF.RESERVE the claim calls bad: an error rate that is
\* non-numeric, zero or negative, or a capacity that is non-numeric, zero or
\* >= 2^32
BadReserveArgs ==
    { << e, c >> : e \in {NotANumber, Num(0), Num(-1)}, c \in CapArgs }
    \cup { << e, c >> : e \in ErrArgs, c \in {NotANumber, Num(0), HugeNumber} }

\* C14: bad reserve arguments.  In every state, BF.RESERVE with a bad error
\* rate or a bad capacity replies an error and leaves the key as it is: an
\* empty key stays empty.
C14_BadReserveArgs ==
    \A args \in BadReserveArgs :
        LET r == BFReserve_RedisCommand(db["k1"], args, TRUE)
        IN  IsError(r.reply) /\ r.val = db["k1"]


\* the results of the four creating commands on a stored value when the
\* construction of the filter fails
FailedCreations(val) ==
    { BFReserve_RedisCommand(val, << Num(1), Num(1) >>, FALSE),
      BFAdd_RedisCommand(val, "BF.ADD", << 1 >>, FALSE),
      CFReserve_RedisCommand(val, << Num(2) >>, FALSE) }
    \cup CFAdd_RedisCommand(val, "CF.ADD", << Num(1) >>, FALSE, TRUE)

\* C15: failed creation leaves the key empty.  When the key is empty and the
\* construction of the filter fails inside BF.RESERVE, BF.ADD, CF.RESERVE or
\* CF.ADD, the command replies an error and the key is still empty: a
\* following lookup reports SB_EMPTY for either type.
C15_FailedCreation ==
    db["k1"].type = "empty" =>
        \A r \in FailedCreations(db["k1"]) :
            /\ IsError(r.reply)
            /\ bfGetChain(r.val) = SB_EMPTY
            /\ cfGetFilter(r.val) = SB_EMPTY


\* every result CF.ADD / CF.ADDNX of item x can have on a stored value
CFAddRuns(val, x) ==
    UNION { CFAdd_RedisCommand(val, n, << Num(x) >>, TRUE, g) :
            n \in {"CF.ADD", "CF.ADDNX"}, g \in BOOLEAN }

GoodHeaders ==
    { SBChain_GetEncodedHeader(SB_NewChain(c, 1, TRUE)) : c \in 1..2 }
    \cup (IF db["k1"].type = "bloom"
          THEN {SBChain_GetEncodedHeader(db["k1"].v)} ELSE {})

BadHeaders ==
    {<<>>, << 1 >>, << 0, 0, 0, 0 >>}
    \cup { SubSeq(h, 1, Len(h) - 1) : h \in GoodHeaders }

\* the cursors a client may pass, other than 1
OtherCursors == {-1, 0, 2, 3, 5}

\* C17: BF.LOADCHUNK on an absent key.  On an empty key the command creates
\* a chain only when the cursor is 1 and the data is a valid encoded header;
\* with any other cursor it replies 'ERR not found', and with cursor 1 and an
\* invalid header it replies an error; in both failure cases the key stays
\* empty.  On an existing chain a chunk load that fails replies an error.
C17_LoadChunkAbsent ==
    \A k \in Keys :
        /\ db[k].type = "empty" =>
              /\ \A c \in OtherCursors, buf \in GoodHeaders \cup BadHeaders :
                    BFLoadChunk_RedisCommand(db[k], << Num(c) >>, buf, TRUE)
                       = [val |-> db[k], reply |-> << RErr("ERR not found") >>]
              /\ \A buf \in BadHeaders :
                    LET r == BFLoadChunk_RedisCommand(db[k], << Num(1) >>, buf, TRUE)
                    IN  IsError(r.reply) /\ r.val = db[k]
              /\ \A buf \in GoodHeaders :
                    BFLoadChunk_RedisCommand(db[k], << Num(1) >>, buf, TRUE)
                       = [val |-> Bloom(SB_NewChainFromHeader(buf, TRUE)),
                          reply |-> << RStr("OK") >>]
        /\ db[k].type = "bloom" =>
              \A c \in OtherCursors \cup {1},
                 buf \in {<<>>, << 1 >>, << 1, 1, 1 >>} :
                    SBChain_LoadEncodedChunk(db[k].v, c, buf).rc # 0 =>
                        IsError(BFLoadChunk_RedisCommand(db[k], << Num(c) >>,
                                                         buf, TRUE).reply)

\* a BF.LOADCHUNK with a cursor other than 1 has just replied 'ERR not found'
\* on the empty key k2, which is still empty
C17_Witness ==
    /\ cmd.name = "BF.LOADCHUNK"
    /\ cmd.key = "k2"
    /\ db["k2"].type = "empty"
    /\ reply = << RErr("ERR not found") >>
    /\ ix >= 3


\* the snapshot of k1 has been loaded into k2 with version v
Loaded(type) == pc = "done" /\ mode = "rdb" /\ db["k1"].type = type

\* C18: snapshot version gate.  A bloom or cuckoo snapshot loaded with an
\* encver above the current version (1) fails and produces no filter.  A
\* bloom snapshot loaded with encver 0 has no bits / n2 values read from the
\* stream: n2 is 0 and bits is entries * bpe, and the values after them are
\* read in their places; with encver 1 bits and n2 are the stream's.
C18_VersionGate ==
    /\ (pc = "done" /\ mode = "rdb" /\ encver > BF_ENCODING_VERSION) =>
          (~ok /\ db["k2"].type = "empty")
    /\ (Loaded("cuckoo") /\ encver <= BF_ENCODING_VERSION) =>
          (ok /\ db["k2"].type = "cuckoo")
    /\ (Loaded("bloom") /\ encver <= BF_ENCODING_VERSION) =>
          /\ ok
          /\ db["k2"].type = "bloom"
          /\ db["k2"].v.nfilters = db["k1"].v.nfilters
          /\ \A i \in 1..db["k1"].v.nfilters :
                LET src == db["k1"].v.filters[i]
                    got == db["k2"].v.filters[i]
                IN  /\ got.entries = src.entries
                    /\ got.bpe = src.bpe
                    /\ got.bf = src.bf
                    /\ got.bytes = src.bytes
                    /\ got.size = src.size
                    /\ encver = 0 =>
                          /\ got.n2 = 0
                          /\ got.bits = (src.entries * src.bpe) \div 1000
                    /\ encver = 1 =>
                          /\ got.bits = src.bits
                          /\ got.n2 = src.n2
          /\ encver = 1 =>
                BFRdbLoad([rdb EXCEPT ![8] = << 3 >>], 1).filters[1].n2 = 3

\* a legacy snapshot of a chain of two layers has been loaded, and the bits
\* the loader computed are not those the chain had
C18_Witness ==
    /\ Loaded("bloom")
    /\ encver = 0
    /\ ok
    /\ db["k1"].v.nfilters >= 2
    /\ db["k1"].v.size >= 2
    /\ db["k2"].v.filters[1].bits # db["k1"].v.filters[1].bits


(***************************************************************************)
(* C19: the growth schedule of a bloom chain.                              *)
(***************************************************************************)

\* the chain BF.ADD leaves at a stored value for the one item x
BFAddChain(val, x) == BFAdd_RedisCommand(val, "BF.ADD", << x >>, TRUE).val.v

\* the layers of old are layers of new, none smaller
LayersKept(old, new) ==
    /\ new.nfilters >= old.nfilters
    /\ new.size >= old.size
    /\ \A i \in 1..old.nfilters :
          /\ new.filters[i].size >= old.filters[i].size
          /\ new.filters[i].entries = old.filters[i].entries

\* layer i (from 0) has capacity C0 * growth^i
OnSchedule(sb) ==
    \A i \in 1..sb.nfilters :
        sb.filters[i].entries = sb.filters[1].entries * Pow(sb.growth, i - 1)

\* the chain BF.MADD builds on an empty key, with the default parameters,
\* from 2 * BloomInitCap distinct items
DefaultTwice ==
    BFAdd_RedisCommand(EmptyKey, "BF.MADD",
                       [i \in 1..(2 * BloomInitCap) |-> i], TRUE).val.v

\* C19: bloom chain growth schedule.  Across the adds to a chain the number
\* of layers, the chain size and each layer size never decrease; an add
\* appends a layer exactly when it finds no layer with size < entries, and
\* then exactly one; layer i of every chain has capacity C0 * growth^i; and
\* on a chain with the default parameters, adding twice the default
\* capacity of distinct items causes exactly one growth.
C19_GrowthSchedule ==
    /\ [](db["k1"].type = "bloom" =>
            LET sb == db["k1"].v
            IN  /\ OnSchedule(sb)
                /\ \A x \in Items :
                      LET new == BFAddChain(db["k1"], x)
                      IN  /\ LayersKept(sb, new)
                          /\ OnSchedule(new)
                          /\ new.nfilters =
                                sb.nfilters + (IF Unsaturated(sb) THEN 0 ELSE 1)
                          /\ new.size = sb.size + 1
                /\ DefaultTwice.nfilters = 2
                /\ DefaultTwice.size = 2 * BloomInitCap)
    /\ [][db["k1"].type = "bloom" =>
            /\ db'["k1"].type = "bloom"
            /\ LayersKept(db["k1"].v, db'["k1"].v)
            /\ (db'["k1"].v.nfilters > db["k1"].v.nfilters
                   => cmd'.name \in {"BF.ADD", "BF.MADD"})]_vars

\* an add has just appended layer 1, of twice the capacity of layer 0, to a
\* chain whose layer 0 was full
C19_Witness ==
    /\ db["k1"].type = "bloom"
    /\ cmd.name \in {"BF.ADD", "BF.MADD"}
    /\ db["k1"].v.nfilters = 2
    /\ db["k1"].v.filters[1].size = db["k1"].v.filters[1].entries
    /\ db["k1"].v.filters[2].entries = 2 * db["k1"].v.filters[1].entries
    /\ db["k1"].v.filters[2].size = 1


(***************************************************************************)
(* C20: the dump iteration.                                                *)
(***************************************************************************)

\* a sequence of byte strings laid end to end
RECURSIVE Concat(_)
Concat(ss) == IF ss = <<>> THEN <<>> ELSE Head(ss) \o Concat(Tail(ss))

\* every byte of every layer bit vector / sub-filter bucket array, in order
Payload(val) ==
    IF val.type = "bloom"
    THEN Concat([i \in 1..val.v.nfilters |-> LinkBytes(val.v.filters[i])])
    ELSE Concat([j \in 1..val.v.numFilters |-> SubBuffer(val.v, j)])

\* a dump of k1 is under way or has reached the end-of-stream reply
Dumping == mode = "dump" /\ pc \in {"scan", "load"}

\* the places in the log of the data chunks SCANDUMP returned: the first
\* entry is the header, and a bloom dump's last is the end-of-stream pair
ChunkIx ==
    2..(Len(log) - (IF db["k1"].type = "bloom" /\ pc = "load" THEN 1 ELSE 0))

\* the cursor that was passed to the call that returned chunk i
PassedCursor(i) ==
    IF i > 2 THEN log[i - 1].pos.n
    ELSE IF db["k1"].type = "bloom" THEN log[1].pos.n ELSE 0

\* the data chunks returned so far, in order, end to end
DumpedBytes ==
    Concat([i \in 1..(IF ChunkIx = {} THEN 0 ELSE Len(log) - 1
                        - (IF db["k1"].type = "bloom" /\ pc = "load" THEN 1 ELSE 0))
                |-> log[i + 1].buf])

\* C20 (as amended): the dump iteration terminates and covers the payload
\* once.  A client that starts SCANDUMP at cursor 0 and passes back the
\* cursor it was given reaches the end-of-stream reply, after at most one
\* call per payload byte and two more; every data chunk before the end is
\* non-empty and at most MAX_SCANDUMP_SIZE bytes; every returned cursor is
\* the passed one plus the chunk's length, so the cursors strictly increase
\* and the chunks are consecutive; the chunks so far are a prefix of the
\* payload, and at the end they are the whole payload of a bloom chain and
\* of a cuckoo filter with numItems > 0.  A cuckoo filter with numItems = 0
\* replies the end of the stream (cursor -1, null) to the first call, with
\* no chunk at all.
C20_DumpIteration ==
    /\ [](Dumping =>
            LET val == db["k1"]
                all == Payload(val)
                got == DumpedBytes
            IN  /\ Len(log) <= Len(all) + 2
                /\ (val.type = "bloom" /\ log # <<>>) =>
                      log[1].pos.n > 0 /\ log[1].buf # <<>>
                /\ \A i \in ChunkIx :
                      /\ Len(log[i].buf) \in 1..MAX_SCANDUMP_SIZE
                      /\ log[i].pos.n = PassedCursor(i) + Len(log[i].buf)
                      /\ log[i].pos.n > PassedCursor(i)
                /\ Len(got) <= Len(all)
                /\ got = SubSeq(all, 1, Len(got))
                /\ pc = "load" =>
                      IF val.type = "cuckoo" /\ val.v.numItems = 0
                      THEN /\ ChunkIx = {}
                           /\ reply = << RArr(2), RInt(-1), RNull >>
                           /\ cmd.name = "CF.SCANDUMP"
                      ELSE got = all)
    /\ (pc = "scan") ~> (pc = "load")

\* C20 as stated: at the end-of-stream reply the chunks cover every byte of
\* every layer bit vector / sub-filter bucket array, for either filter type.
C20_AsStated == (Dumping /\ pc = "load") => DumpedBytes = Payload(db["k1"])

\* the dump of a cuckoo filter of two sub-filters has reached its end, each
\* sub-filter in more than one chunk
C20_Witness ==
    /\ Dumping
    /\ pc = "load"
    /\ db["k1"].type = "cuckoo"
    /\ db["k1"].v.numFilters = 2
    /\ db["k1"].v.numItems > 0
    /\ Len(log) - 1 > db["k1"].v.numFilters
    /\ DumpedBytes = Payload(db["k1"])
    /\ reply = << RArr(2), RInt(0), RNull >>


(***************************************************************************)
(* C21: the alternate bucket.                                              *)
(***************************************************************************)

\* C21: alternate-bucket involution.  For every power-of-two numBuckets,
\* every bucket index i < numBuckets and every fingerprint fp,
\* alt(alt(i, fp), fp) = i; so after any number of kicks the fingerprint
\* sits in one of the two candidate buckets of its hash, where Check finds
\* it, Count counts it and Delete would zero it.
C21_AltInvolution ==
    db["k1"].type = "cuckoo" =>
        LET cf == db["k1"].v
            nb == cf.numBuckets
            fp == Fingerprint(kick.h)
        IN  /\ nb \in AltBuckets
            /\ \A i \in 0..(nb - 1) :
                  /\ getAltIndex(fp, i, nb) \in 0..(nb - 1)
                  /\ getAltIndex(fp, getAltIndex(fp, i, nb), nb) = i
            /\ kick.b \in Candidates(cf, kick.h)
            /\ SlotsWith(cf.filters[1], kick.b, fp) # {}
            /\ CuckooFilter_Check(cf, kick.h) = 1
            /\ CuckooFilter_Count(cf, kick.h) = 1
            /\ DeleteTarget(cf, kick.h)[1] = 1
            /\ DeleteTarget(cf, kick.h)[2] = kick.b

\* a kick has moved the fingerprint out of its primary bucket, in a
\* sub-filter of the most buckets
C21_Witness ==
    /\ db["k1"].type = "cuckoo"
    /\ db["k1"].v.numBuckets = Pow(2, MaxLogBuckets)
    /\ kick.b # kick.h % db["k1"].v.numBuckets
    /\ SlotsWith(db["k1"].v.filters[1], kick.b, Fingerprint(kick.h)) # {}
    /\ SlotsWith(db["k1"].v.filters[1], kick.h % db["k1"].v.numBuckets,
                 Fingerprint(kick.h)) = {}


(***************************************************************************)
(* C22: CF.DEBUG.                                                          *)
(***************************************************************************)

\* what CF.DEBUG replies on a stored value
CFDebug(val) == CFInfo_RedisCommand(val, <<>>).reply

\* the info line of a filter
CFInfoLine(cf) ==
    << RInfo("bktsize buckets items deletes filters",
             << CUCKOO_BKTSIZE, cf.numBuckets, cf.numItems, cf.numDeletes,
                cf.numFilters >>) >>

\* C22: CF.DEBUG presence guard.  In every state CF.DEBUG replies the
\* filter's info (bucket size, buckets, items, deletes, filters) if and only
\* if the key holds a cuckoo filter; on an absent key and on a key of another
\* type it replies an error, and the value is left as it is.  (A key that a
\* failed creation left with a NULL filter holds no filter to report.)
C22_DebugGuard ==
    ~NullFilter(db["k1"]) =>
        LET val == db["k1"]
            r == CFInfo_RedisCommand(val, <<>>)
        IN  /\ r.val = val
            /\ (val.type = "cuckoo") <=> (r.reply # <<>> /\ r.reply[1].t = "str")
            /\ val.type = "cuckoo" => r.reply = CFInfoLine(val.v)
            /\ val.type = "empty" => r.reply = << RErr("ERR not found") >>
            /\ val.type \notin {"cuckoo", "empty"}
                  => r.reply = << RErr("WRONGTYPE") >>
            /\ val.type # "cuckoo" => IsError(r.reply)

\* CF.DEBUG has just reported a filter that holds an item and has deleted one
C22_Witness ==
    /\ cmd.name = "CF.DEBUG"
    /\ db["k1"].type = "cuckoo"
    /\ reply = CFInfoLine(db["k1"].v)
    /\ db["k1"].v.numItems > 0
    /\ db["k1"].v.numDeletes > 0


(***************************************************************************)
(* C23: the snapshot round trip.                                           *)
(***************************************************************************)

\* what BF.DEBUG replies on a stored value
BFDebug(val) == BFInfo_RedisCommand(val, <<>>).reply

\* the answers of the queries of a value's type, for every item
SameAnswers(v1, v2) ==
    \A x \in Items :
        IF v1.type = "bloom" THEN BFExists(v2, x) = BFExists(v1, x)
        ELSE /\ CFExists(v2, x) = CFExists(v1, x)
             /\ CFCount(v2, x) = CFCount(v1, x)

\* the memory usage of a stored filter
MemUsage(val) ==
    IF val.type = "bloom" THEN BFMemUsage(val.v) ELSE CFMemUsage(val.v)

\* the stream the save routine of a stored filter's type writes
RdbSaved(val) ==
    IF val.type = "bloom" THEN BFRdbSave(val.v) ELSE CFRdbSave(val.v)

\* C23: snapshot save/load round trip.  Whenever the snapshot of a chain or
\* a filter has been loaded with encver 1, the load has read the stream the
\* save wrote (saving the loaded filter writes the same stream), and the
\* loaded filter answers every existence / count query, reports in BF.DEBUG
\* / CF.DEBUG (the delete counter included) and uses memory as the saved one.
C23_SnapshotRoundTrip ==
    (pc = "done" /\ mode = "rdb" /\ encver = 1) =>
        /\ ok
        /\ db["k2"].type = db["k1"].type
        /\ RdbSaved(db["k2"]) = rdb
        /\ SameAnswers(db["k1"], db["k2"])
        /\ MemUsage(db["k2"]) = MemUsage(db["k1"])
        /\ db["k1"].type = "bloom" => BFDebug(db["k2"]) = BFDebug(db["k1"])
        /\ db["k1"].type = "cuckoo" => CFDebug(db["k2"]) = CFDebug(db["k1"])


(***************************************************************************)
(* C24: the read-only commands.                                            *)
(***************************************************************************)

\* the results of the read-only commands on a stored value, with one and
\* with two items, and from the first and from a later cursor
ReadOnlyRuns(val) ==
    { BFCheck_RedisCommand(val, "BF.EXISTS", << 1 >>),
      BFCheck_RedisCommand(val, "BF.MEXISTS", << 1, 2 >>),
      BFInfo_RedisCommand(val, <<>>),
      BFScanDump_RedisCommand(val, << Num(0) >>),
      BFScanDump_RedisCommand(val, << Num(SB_CHUNKITER_INIT) >>),
      CFCheck_RedisCommand(val, "CF.EXISTS", << 1 >>),
      CFCheck_RedisCommand(val, "CF.MEXISTS", << 1, 2 >>),
      CFCheck_RedisCommand(val, "CF.COUNT", << 1 >>),
      CFScanDump_RedisCommand(val, << Num(0) >>),
      CFScanDump_RedisCommand(val, << Num(CUCKOO_BKTSIZE) >>),
      CFInfo_RedisCommand(val, <<>>) }

\* the reply of an existence / count query that answers 0 for each item
ZeroForEach(name, items) ==
    (IF isMulti(name) THEN << RArr(Len(items)) >> ELSE <<>>)
    \o [i \in 1..Len(items) |-> RInt(0)]

\* C24: read-only commands have no effect on state.  In every state each
\* of BF.EXISTS, BF.MEXISTS, BF.DEBUG, BF.SCANDUMP, CF.EXISTS, CF.MEXISTS,
\* CF.COUNT, CF.SCANDUMP and CF.DEBUG leaves the value under the key as it
\* is (an absent key stays absent, a filter keeps every field), and on an
\* absent key an existence / count query replies 0 for each item.
C24_ReadOnly ==
    ~NullFilter(db["k1"]) =>
        /\ \A r \in ReadOnlyRuns(db["k1"]) : r.val = db["k1"]
        /\ db["k1"].type = "empty" =>
              /\ \A n \in {"BF.EXISTS", "BF.MEXISTS"} :
                 \A it \in {<< 1 >>, << 1, 2 >>} :
                    (isMulti(n) \/ Len(it) = 1) =>
                       BFCheck_RedisCommand(db["k1"], n, it).reply
                          = ZeroForEach(n, it)
              /\ \A n \in {"CF.EXISTS", "CF.MEXISTS", "CF.COUNT"} :
                 \A it \in {<< 1 >>, << 1, 2 >>} :
                    (isMulti(n) \/ Len(it) = 1) =>
                       CFCheck_RedisCommand(db["k1"], n, it).reply
                          = ZeroForEach(n, it)


(***************************************************************************)
(* C25: well-formed replies.                                               *)
(***************************************************************************)

\* the reply calls of one command make one top-level reply: a single value,
\* or an array header followed by as many values as it declares
WellFormed(r) ==
    /\ r # <<>>
    /\ IF r[1].t = "arr" THEN Len(r) = 1 + r[1].n ELSE Len(r) = 1
    /\ \A i \in 2..Len(r) : r[i].t # "arr"

\* C25: well-formed replies.  The command that was last run made exactly
\* one top-level reply, and in every state every BF.* / CF.* command, on the
\* value the key holds, would: a single value, or an array with as many
\* elements as the length it declared.
C25_WellFormedReplies ==
    /\ cmd.name # "" => WellFormed(reply)
    /\ ~NullFilter(db["k1"]) =>
          \A r \in BloomRuns(db["k1"]) \cup CuckooRuns(db["k1"])
                   \cup ReadOnlyRuns(db["k1"]) : WellFormed(r.reply)


(***************************************************************************)
(* C26: propagation.                                                       *)
(***************************************************************************)

\* the commands the claim lists: those that can create or modify a filter
Mutating ==
    {"BF.RESERVE", "BF.ADD", "BF.MADD", "BF.LOADCHUNK", "CF.RESERVE", "CF.ADD",
     "CF.ADDNX", "CF.DEL", "CF.LOADHDR", "CF.LOADCHUNK"}

\* C26: mutations are propagated.  Every command that can create or modify
\* a stored filter is replicated verbatim, and so in every state the replica
\* holds a filter (of the same type) under the key whenever the primary does.
C26_Propagated ==
    /\ cmd.name \in Mutating => cmd.name \in Propagated
    /\ IsFilter(db["k1"]) =>
          IsFilter(replica["k1"]) /\ replica["k1"].type = db["k1"].type

=============================================================================
